---------------------------- MODULE Spec2Model ----------------------------
(***************************************************************************)
(* Transcript segmentation and timestamp normalisation of chat_coach:      *)
(* WhatsAppMessage._parse_timestamp and WhatsAppChatAnalyzer.parse_chat    *)
(* (src/whatsapp_analyzer.py).                                             *)
(*                                                                         *)
(* Text is modelled character by character: a string is a sequence of      *)
(* one-character strings, the regular expressions of the source are lists  *)
(* of atoms matched by a backtracking matcher with Python's priorities     *)
(* (greedy quantifiers, first successful alternative), and strptime is a   *)
(* directive-by-directive parser.                                          *)
(***************************************************************************)
EXTENDS Integers, Sequences, FiniteSets, TLC

\* ------------------------------------------------------------------------
\* Characters and strings
\* ------------------------------------------------------------------------

Digits == {"0", "1", "2", "3", "4", "5", "6", "7", "8", "9"}

\* the whitespace str.strip() and \s recognise, as far as the inputs use it
Spaces == {" ", "\t"}

\* U+200E, the invisible mark WhatsApp puts before "image omitted"
LRM == "LRM"

DigitVal(c) ==
    CASE c = "0" -> 0 [] c = "1" -> 1 [] c = "2" -> 2 [] c = "3" -> 3
      [] c = "4" -> 4 [] c = "5" -> 5 [] c = "6" -> 6 [] c = "7" -> 7
      [] c = "8" -> 8 [] c = "9" -> 9

Min(a, b) == IF a < b THEN a ELSE b

\* the largest C int: datetime.datetime raises OverflowError, not ValueError,
\* for an argument above it
INT_MAX == 2147483647

\* int(n) of a run of decimal digits; Python's integers are unbounded, here
\* a value above INT_MAX is held as INT_MAX and told apart by ExceedsInt
\* 10 * x + d does not fit a C int
Overflows(x, d) == x > 214748364 \/ (x = 214748364 /\ d > 7)

\* x followed by the digit d
Shifted(x, d) == IF Overflows(x, d) THEN INT_MAX ELSE 10 * x + d

RECURSIVE ToInt(_)
ToInt(s) ==
    IF s = <<>> THEN 0
    ELSE Shifted(ToInt(SubSeq(s, 1, Len(s) - 1)), DigitVal(s[Len(s)]))

\* int(n) > INT_MAX
RECURSIVE ExceedsInt(_)
ExceedsInt(s) ==
    IF s = <<>> THEN FALSE
    ELSE \/ ExceedsInt(SubSeq(s, 1, Len(s) - 1))
         \/ Overflows(ToInt(SubSeq(s, 1, Len(s) - 1)), DigitVal(s[Len(s)]))

\* str.strip(): drop leading and trailing whitespace
Strip(s) ==
    LET keep == {i \in 1..Len(s) : s[i] \notin Spaces}
    IN  IF keep = {} THEN <<>>
        ELSE LET lo == CHOOSE i \in keep : \A j \in keep : i <= j
                 hi == CHOOSE i \in keep : \A j \in keep : j <= i
             IN  SubSeq(s, lo, hi)

\* str.startswith(prefix)
StartsWith(s, prefix) ==
    /\ Len(prefix) <= Len(s)
    /\ SubSeq(s, 1, Len(prefix)) = prefix

\* the `in` operator on strings: sub occurs somewhere in s
Contains(s, sub) ==
    \E i \in 0..(Len(s) - Len(sub)) : SubSeq(s, i + 1, i + Len(sub)) = sub

\* ------------------------------------------------------------------------
\* Regular expressions: a pattern is a sequence of atoms
\*   cls   : a character class with a greedy quantifier {lo,hi}
\*   open  : start of capture group lo      close : end of capture group lo
\*   opt   : the next lo atoms form an optional group (?: ... )?
\*   not   : negative lookahead (?!c) for a character class c
\* ------------------------------------------------------------------------

Inf == 999

Cls(set, neg, lo, hi) == <<[k |-> "cls", in |-> set, neg |-> neg, lo |-> lo, hi |-> hi]>>
Ch(c)      == Cls({c}, FALSE, 1, 1)
D(lo, hi)  == Cls(Digits, FALSE, lo, hi)
Sp0        == Cls(Spaces, FALSE, 0, Inf)
Sp1        == Cls(Spaces, FALSE, 1, Inf)
Open(g)    == <<[k |-> "open", in |-> {}, neg |-> FALSE, lo |-> g, hi |-> g]>>
Close(g)   == <<[k |-> "close", in |-> {}, neg |-> FALSE, lo |-> g, hi |-> g]>>
NotNext(set) == <<[k |-> "not", in |-> set, neg |-> FALSE, lo |-> 0, hi |-> 0]>>
Opt(atoms) == <<[k |-> "opt", in |-> {}, neg |-> FALSE, lo |-> Len(atoms), hi |-> 0]>> \o atoms

InClass(c, a) == (c \in a.in) # a.neg

\* the longest run of class characters from pos, at most a.hi long
Run(s, pos, a) ==
    LET cap == Min(a.hi, Len(s) - pos)
        ok(n) == \A j \in 1..n : InClass(s[pos + j], a)
    IN  CHOOSE n \in 0..cap : ok(n) /\ (n = cap \/ ~InClass(s[pos + n + 1], a))

NoMatch == <<>>

\* the first attempt if it succeeds, else the next one (backtracking in a
\* regular expression, `except ValueError: continue` in a loop)
Otherwise(r, next) == IF r # <<>> THEN r ELSE next

\* the match r with capture boundary b set to pos
Mark(r, b, pos) == IF r = NoMatch THEN NoMatch ELSE [r EXCEPT ![b] = pos]

\* The first match, in Python's backtracking order, of atoms k.. of re on s
\* from offset pos: the capture boundaries <<s1, e1, s2, e2, s3, e3>>, or
\* NoMatch.  As re.match, the match is anchored at the start only.
RECURSIVE MatchFrom(_, _, _, _), TryRun(_, _, _, _, _)
MatchFrom(re, s, k, pos) ==
    IF k > Len(re) THEN <<0, 0, 0, 0, 0, 0>>
    ELSE LET a == re[k] IN
         CASE a.k = "open" -> Mark(MatchFrom(re, s, k + 1, pos), 2 * a.lo - 1, pos)
           [] a.k = "close" -> Mark(MatchFrom(re, s, k + 1, pos), 2 * a.lo, pos)
           [] a.k = "opt" ->
                Otherwise(MatchFrom(re, s, k + 1, pos),
                          MatchFrom(re, s, k + 1 + a.lo, pos))
           [] a.k = "not" ->
                IF pos < Len(s) /\ InClass(s[pos + 1], a) THEN NoMatch
                ELSE MatchFrom(re, s, k + 1, pos)
           [] a.k = "cls" -> TryRun(re, s, k, pos, Run(s, pos, re[k]))

TryRun(re, s, k, pos, n) ==
    IF n < re[k].lo THEN NoMatch
    ELSE Otherwise(MatchFrom(re, s, k + 1, pos + n), TryRun(re, s, k, pos, n - 1))

\* re.match(pattern, line) and match.groups()
ReMatch(re, s) == MatchFrom(re, s, 1, 0)
Group(s, m, g) == SubSeq(s, m[2 * g - 1] + 1, m[2 * g])

\* re.search(pattern, line) finds a match starting somewhere in the line
ReSearch(re, s) == \E i \in 0..Len(s) : MatchFrom(re, s, 1, i) # NoMatch

\* ------------------------------------------------------------------------
\* Inputs: the lines transcripts are made of
\* ------------------------------------------------------------------------

\* "25/10/2023 09:15 - Ann: Hi"
AnnHi ==
    <<"2", "5", "/", "1", "0", "/", "2", "0", "2", "3", " ", "0", "9", ":", "1", "5", " ", "-", " ", "A", "n", "n", ":", " ", "H", "i">>
\* "there"
There ==
    <<"t", "h", "e", "r", "e">>
\* "25/10/2023 09:17 - Bob: Hi Ann"
BobHiAnn ==
    <<"2", "5", "/", "1", "0", "/", "2", "0", "2", "3", " ", "0", "9", ":", "1", "7", " ", "-", " ", "B", "o", "b", ":", " ", "H", "i", " ", "A", "n", "n">>
\* "25/10/2023 09:16 - Ann: <Media>"
AnnMedia ==
    <<"2", "5", "/", "1", "0", "/", "2", "0", "2", "3", " ", "0", "9", ":", "1", "6", " ", "-", " ", "A", "n", "n", ":", " ", "<", "M", "e", "d", "i", "a", ">">>
\* ""
Blank ==
    <<>>
\* "31/02/2023 09:15 - Ann: x"
AnnBadDate ==
    <<"3", "1", "/", "0", "2", "/", "2", "0", "2", "3", " ", "0", "9", ":", "1", "5", " ", "-", " ", "A", "n", "n", ":", " ", "x">>
\* "[25/10/2023 09:15:30] Bob : ok"
BobBracketed ==
    <<"[", "2", "5", "/", "1", "0", "/", "2", "0", "2", "3", " ", "0", "9", ":", "1", "5", ":", "3", "0", "]", " ", "B", "o", "b", " ", ":", " ", "o", "k">>
\* "  and more"
AndMore ==
    <<" ", " ", "a", "n", "d", " ", "m", "o", "r", "e">>
\* "9999999999 1 1 1 1 - Ann: x"
AnnHugeYear ==
    <<"9", "9", "9", "9", "9", "9", "9", "9", "9", "9", " ", "1", " ", "1", " ", "1", " ", "1", " ", "-", " ", "A", "n", "n", ":", " ", "x">>

Corpus == {AnnHi, There, BobHiAnn, AnnMedia, Blank, AnnBadDate, BobBracketed, AndMore,
           AnnHugeYear}


\* the forms of a corpus line that the code looks at: the line as split
\* from the text and the line after line.strip()
LStrip(s) ==
    LET keep == {i \in 1..Len(s) : s[i] \notin Spaces}
    IN  IF keep = {} THEN <<>>
        ELSE SubSeq(s, CHOOSE i \in keep : \A j \in keep : i <= j, Len(s))

RStrip(s) ==
    LET keep == {i \in 1..Len(s) : s[i] \notin Spaces}
    IN  IF keep = {} THEN <<>>
        ELSE SubSeq(s, 1, CHOOSE i \in keep : \A j \in keep : j <= i)

\* lines with system/media notices and missed-call phrases
\* "25/10/2023 09:18 - Ann: Missed call"
AnnMissedCall ==
    <<"2", "5", "/", "1", "0", "/", "2", "0", "2", "3", " ", "0", "9", ":", "1", "8", " ", "-", " ", "A", "n", "n", ":", " ", "M", "i", "s", "s", "e", "d", " ", "c", "a", "l", "l">>
\* "25/10/2023 09:19 - Ann: sorry, Missed call"
AnnMissedLater ==
    <<"2", "5", "/", "1", "0", "/", "2", "0", "2", "3", " ", "0", "9", ":", "1", "9", " ", "-", " ", "A", "n", "n", ":", " ", "s", "o", "r", "r", "y", ",", " ", "M", "i", "s", "s", "e", "d", " ", "c", "a", "l", "l">>
\* "25/10/2023 09:17 - Ann: \u200eimage omitted"
AnnImageOmitted ==
    <<"2", "5", "/", "1", "0", "/", "2", "0", "2", "3", " ", "0", "9", ":", "1", "7", " ", "-", " ", "A", "n", "n", ":", " ", LRM, "i", "m", "a", "g", "e", " ", "o", "m", "i", "t", "t", "e", "d">>

NoticeCorpus == {AnnHi, AnnMedia, AnnMissedCall, AnnMissedLater, AnnImageOmitted, There}

\* lines of several timestamp families
\* "10/25/2023 9:15 AM - Ann: Hi"
UsHi ==
    <<"1", "0", "/", "2", "5", "/", "2", "0", "2", "3", " ", "9", ":", "1", "5", " ", "A", "M", " ", "-", " ", "A", "n", "n", ":", " ", "H", "i">>
\* "2023-10-25 09:15 - Ann: Hi"
IsoHi ==
    <<"2", "0", "2", "3", "-", "1", "0", "-", "2", "5", " ", "0", "9", ":", "1", "5", " ", "-", " ", "A", "n", "n", ":", " ", "H", "i">>
\* "25-10-2023 09:15 - Ann: Hi"
DashHi ==
    <<"2", "5", "-", "1", "0", "-", "2", "0", "2", "3", " ", "0", "9", ":", "1", "5", " ", "-", " ", "A", "n", "n", ":", " ", "H", "i">>

FamilyCorpus == {AnnHi, UsHi, IsoHi, DashHi, There}

\* "25/10/2023 09:15 - Ann:": a message-start line with no content
AnnNoContent ==
    <<"2", "5", "/", "1", "0", "/", "2", "0", "2", "3", " ", "0", "9", ":", "1", "5", " ", "-", " ", "A", "n", "n", ":">>

EmptyContentCorpus == {AnnHi, AnnNoContent, There}

AllLines == Corpus \cup NoticeCorpus \cup FamilyCorpus \cup EmptyContentCorpus

KnownLines == AllLines \cup {LStrip(l) : l \in AllLines} \cup {RStrip(l) : l \in AllLines}
                       \cup {Strip(l) : l \in AllLines}

\* ------------------------------------------------------------------------
\* message_patterns of parse_chat
\* ------------------------------------------------------------------------

\* \s*-\s*([^:]+):\s*(.+)
DashTail ==
    Sp0 \o Ch("-") \o Sp0 \o Open(2) \o Cls({":"}, TRUE, 1, Inf) \o Close(2)
        \o Ch(":") \o Sp0 \o Open(3) \o Cls({}, TRUE, 1, Inf) \o Close(3)

\* \s*([^:]+):\s*(.+)
NoDashTail ==
    Sp0 \o Open(2) \o Cls({":"}, TRUE, 1, Inf) \o Close(2)
        \o Ch(":") \o Sp0 \o Open(3) \o Cls({}, TRUE, 1, Inf) \o Close(3)

\* ,?\s+\d{1,2}:\d{2}(?::\d{2})?
ClockPart ==
    Cls({","}, FALSE, 0, 1) \o Sp1 \o D(1, 2) \o Ch(":") \o D(2, 2)
        \o Opt(Ch(":") \o D(2, 2))

\* [\d\/\-\.]{6,10}
DateLike == Cls(Digits \cup {"/", "-", "."}, FALSE, 6, 10)

\* [\d:APM\s]{4,11}
TimeLike == Cls(Digits \cup {":", "A", "P", "M"} \cup Spaces, FALSE, 4, 11)

message_patterns == <<
    \* Brazilian/European
    Open(1) \o D(1, 2) \o Ch("/") \o D(1, 2) \o Ch("/") \o D(2, 4) \o ClockPart
        \o Close(1) \o DashTail,
    \* US with AM/PM
    Open(1) \o D(1, 2) \o Ch("/") \o D(1, 2) \o Ch("/") \o D(2, 4) \o ClockPart
        \o Sp0 \o Cls({"A", "P"}, FALSE, 1, 1) \o Ch("M") \o Close(1) \o DashTail,
    \* ISO
    Open(1) \o D(4, 4) \o Ch("-") \o D(1, 2) \o Ch("-") \o D(1, 2) \o ClockPart
        \o Close(1) \o DashTail,
    \* Android dot
    Open(1) \o D(1, 2) \o Ch(".") \o D(1, 2) \o Ch(".") \o D(2, 4) \o ClockPart
        \o Close(1) \o DashTail,
    \* Dash
    Open(1) \o D(1, 2) \o Ch("-") \o D(1, 2) \o Ch("-") \o D(2, 4) \o ClockPart
        \o Close(1) \o DashTail,
    \* Flexible
    Open(1) \o DateLike \o Cls({","}, FALSE, 0, 1) \o Sp1 \o TimeLike \o Close(1)
        \o DashTail,
    \* With brackets
    Ch("[") \o Open(1) \o DateLike \o Sp1 \o TimeLike \o Close(1) \o Ch("]")
        \o DashTail,
    \* With brackets, no dash
    Ch("[") \o Open(1) \o DateLike \o Sp1 \o TimeLike \o Close(1) \o Ch("]")
        \o NoDashTail,
    \* No dash
    Open(1) \o DateLike \o Sp1 \o TimeLike \o Close(1) \o NoDashTail >>

\* re.match(pattern, line) for every pattern and every line of the corpus,
\* computed once
MatchAll(patterns, l) == [i \in 1..Len(patterns) |-> ReMatch(patterns[i], l)]

MatchTable == [l \in KnownLines |-> MatchAll(message_patterns, l)]

\* ------------------------------------------------------------------------
\* datetime.datetime.strptime, as far as the layouts of _parse_timestamp
\* use it.  A layout is a sequence of directives and literal characters.
\* ------------------------------------------------------------------------

\* the lengths a numeric directive tries, in the order of its alternatives
FieldLens(dir) ==
    CASE dir = "%Y" -> <<4>>
      [] dir = "%y" -> <<2>>
      [] OTHER      -> <<2, 1>>

\* the digit strings a numeric directive accepts (n digits of value v)
FieldOK(dir, n, v) ==
    CASE dir = "%d" -> (n = 2 /\ v >= 1 /\ v <= 31) \/ (n = 1 /\ v >= 1)
      [] dir \in {"%m", "%I"} -> (n = 2 /\ v >= 1 /\ v <= 12) \/ (n = 1 /\ v >= 1)
      [] dir = "%H" -> (n = 2 /\ v <= 23) \/ n = 1
      [] dir = "%M" -> (n = 2 /\ v <= 59) \/ n = 1
      [] dir = "%S" -> (n = 2 /\ v <= 61) \/ n = 1
      [] dir = "%Y" -> n = 4
      [] dir = "%y" -> n = 2

NumericDirectives == {"%d", "%m", "%Y", "%y", "%H", "%I", "%M", "%S"}

NoFields == [Y |-> 1900, y |-> -1, m |-> 1, d |-> 1, H |-> 0, I |-> -1,
             M |-> 0, S |-> 0, p |-> "", end |-> 0]

SetField(acc, dir, v) ==
    CASE dir = "%d" -> [acc EXCEPT !.d = v]
      [] dir = "%m" -> [acc EXCEPT !.m = v]
      [] dir = "%Y" -> [acc EXCEPT !.Y = v]
      [] dir = "%y" -> [acc EXCEPT !.y = v]
      [] dir = "%H" -> [acc EXCEPT !.H = v]
      [] dir = "%I" -> [acc EXCEPT !.I = v]
      [] dir = "%M" -> [acc EXCEPT !.M = v]
      [] dir = "%S" -> [acc EXCEPT !.S = v]

AllDigits(s, pos, n) ==
    /\ pos + n <= Len(s)
    /\ \A j \in 1..n : s[pos + j] \in Digits

\* The first match of directives k.. of fmt on s from offset pos, as the
\* regular expression strptime compiles from fmt finds it; <<>> when none.
RECURSIVE ScanFrom(_, _, _, _, _), ScanField(_, _, _, _, _, _), ScanSpace(_, _, _, _, _, _)
RECURSIVE ScanDigits(_, _, _, _, _, _, _)
ScanFrom(fmt, s, k, pos, acc) ==
    IF k > Len(fmt) THEN [acc EXCEPT !.end = pos]
    ELSE LET dir == fmt[k] IN
         CASE dir \in NumericDirectives -> ScanField(fmt, s, k, pos, acc, 1)
           [] dir = "%p" ->
                IF /\ pos + 2 <= Len(s)
                   /\ s[pos + 1] \in {"A", "a", "P", "p"}
                   /\ s[pos + 2] \in {"M", "m"}
                THEN ScanFrom(fmt, s, k + 1, pos + 2,
                        [acc EXCEPT !.p = IF s[pos + 1] \in {"A", "a"} THEN "am" ELSE "pm"])
                ELSE <<>>
           [] dir = " " ->
                ScanSpace(fmt, s, k, pos, acc,
                          Run(s, pos, [in |-> Spaces, neg |-> FALSE, hi |-> Inf]))
           [] OTHER ->
                IF pos + 1 <= Len(s) /\ s[pos + 1] = dir
                THEN ScanFrom(fmt, s, k + 1, pos + 1, acc)
                ELSE <<>>

ScanField(fmt, s, k, pos, acc, i) ==
    IF i > Len(FieldLens(fmt[k])) THEN <<>>
    ELSE Otherwise(ScanDigits(fmt, s, k, pos, acc, FieldLens(fmt[k])[i],
                              ToInt(SubSeq(s, pos + 1, pos + FieldLens(fmt[k])[i]))),
                   ScanField(fmt, s, k, pos, acc, i + 1))

\* the directive fmt[k] read from n digits of value v
ScanDigits(fmt, s, k, pos, acc, n, v) ==
    IF AllDigits(s, pos, n) /\ FieldOK(fmt[k], n, v)
    THEN ScanFrom(fmt, s, k + 1, pos + n, SetField(acc, fmt[k], v))
    ELSE <<>>

ScanSpace(fmt, s, k, pos, acc, n) ==
    IF n < 1 THEN <<>>
    ELSE Otherwise(ScanFrom(fmt, s, k + 1, pos + n, acc),
                   ScanSpace(fmt, s, k, pos, acc, n - 1))

IsLeap(y) == y % 4 = 0 /\ (y % 100 # 0 \/ y % 400 = 0)

DaysInMonth(y, m) ==
    CASE m \in {4, 6, 9, 11} -> 30
      [] m = 2 -> IF IsLeap(y) THEN 29 ELSE 28
      [] OTHER -> 31

\* the arguments datetime.datetime(year, month, day, hour, minute, second)
\* accepts; any other raises ValueError
ValidDateTime(y, m, d, H, M, S) ==
    /\ y >= 1 /\ y <= 9999
    /\ m >= 1 /\ m <= 12
    /\ d >= 1 /\ d <= DaysInMonth(y, m)
    /\ H >= 0 /\ H <= 23
    /\ M >= 0 /\ M <= 59
    /\ S >= 0 /\ S <= 59

Failed == <<>>

\* the outcome of a resolution that raises OverflowError
Raised == <<"OverflowError">>

\* strptime(s, fmt): the date-time <<y, m, d, H, M, S>>, or Failed where
\* strptime raises ValueError
\* datetime.datetime(y, m, d, H, M, S) for arguments that fit a C int
DateTime(y, m, d, H, M, S) ==
    IF ValidDateTime(y, m, d, H, M, S) THEN <<y, m, d, H, M, S>> ELSE Failed

\* the year of the fields found: %Y, or %y with its pivot at 69
FieldYear(f) ==
    IF f.y = -1 THEN f.Y ELSE IF f.y <= 68 THEN 2000 + f.y ELSE 1900 + f.y

\* Faulty variant of FieldHour, %p ignored: C18 must tell it from FieldHour.
FieldHour_pm_ignored(f) == IF f.I = -1 THEN f.H ELSE f.I

\* the hour of the fields found: %H, or %I with %p
FieldHour(f) ==
    IF f.I = -1 THEN f.H
    ELSE IF f.p = "pm" THEN (IF f.I # 12 THEN f.I + 12 ELSE 12)
    ELSE (IF f.I = 12 THEN 0 ELSE f.I)

\* the date-time of the fields f found in a string of len characters
FromFields(f, len) ==
    IF f = <<>> THEN Failed
    ELSE IF f.end # len THEN Failed              \* unconverted data remains
    ELSE DateTime(FieldYear(f), f.m, f.d, FieldHour(f), f.M, f.S)

Strptime(s, fmt) == FromFields(ScanFrom(fmt, s, 1, 0, NoFields), Len(s))

\* ------------------------------------------------------------------------
\* WhatsAppMessage._parse_timestamp
\* ------------------------------------------------------------------------

DMY(sep, yr, comma, secs) ==
    <<"%d", sep, "%m", sep, yr>> \o comma \o <<" ", "%H", ":", "%M">> \o secs

MDYp(yr, comma, secs) ==
    <<"%m", "/", "%d", "/", yr>> \o comma \o <<" ", "%I", ":", "%M">> \o secs \o <<" ", "%p">>

YMD(sep, comma) ==
    <<"%Y", sep, "%m", sep, "%d">> \o comma \o <<" ", "%H", ":", "%M">>

Comma == <<",">>
Secs  == <<":", "%S">>
Bracketed(fmt) == <<"[">> \o fmt \o <<"]">>

formats == <<
    \* Brazilian/European formats
    DMY("/", "%Y", <<>>, <<>>), DMY("/", "%Y", Comma, <<>>),
    DMY("/", "%y", <<>>, <<>>), DMY("/", "%y", Comma, <<>>),
    \* US formats
    MDYp("%Y", <<>>, <<>>), MDYp("%Y", Comma, <<>>),
    MDYp("%y", <<>>, <<>>), MDYp("%y", Comma, <<>>),
    \* International formats
    YMD("-", <<>>), YMD("-", Comma), YMD("/", <<>>), YMD("/", Comma),
    \* Android specific formats
    DMY(".", "%Y", <<>>, <<>>), DMY(".", "%Y", Comma, <<>>),
    DMY(".", "%y", <<>>, <<>>), DMY(".", "%y", Comma, <<>>),
    \* Other variations
    DMY("-", "%Y", <<>>, <<>>), DMY("-", "%Y", Comma, <<>>),
    DMY("-", "%y", <<>>, <<>>), DMY("-", "%y", Comma, <<>>),
    \* With seconds
    DMY("/", "%Y", <<>>, Secs), DMY("/", "%Y", Comma, Secs),
    MDYp("%Y", <<>>, Secs), MDYp("%Y", Comma, Secs),
    \* In brackets
    Bracketed(<<"%Y", "-", "%m", "-", "%d", " ", "%H", ":", "%M", ":", "%S">>),
    Bracketed(DMY("/", "%Y", <<>>, Secs)),
    Bracketed(MDYp("%Y", <<>>, Secs)),
    Bracketed(DMY("-", "%Y", <<>>, Secs)),
    Bracketed(DMY(".", "%Y", <<>>, Secs)) >>

\* the loop over formats: the result of the first layout that parses
RECURSIVE TryFormats(_, _)
TryFormats(s, i) ==
    IF i > Len(formats) THEN Failed
    ELSE Otherwise(Strptime(s, formats[i]), TryFormats(s, i + 1))

\* re.findall(r'\d+', s): the maximal digit runs, left to right
RECURSIVE FindNumbers(_, _)
FindNumbers(s, pos) ==
    IF pos >= Len(s) THEN <<>>
    ELSE IF s[pos + 1] \notin Digits THEN FindNumbers(s, pos + 1)
    ELSE LET n == Run(s, pos, [in |-> Digits, neg |-> FALSE, hi |-> Inf])
         IN  <<SubSeq(s, pos + 1, pos + n)>> \o FindNumbers(s, pos + n)

\* Faulty variant of FullYear, every two-digit year put in the 2000s: C25
\* must tell it from FullYear.
FullYear_always_2000(year) == IF year < 100 THEN year + 2000 ELSE year

\* a two-digit year: below 50 in the 2000s, else in the 1900s
FullYear(year) ==
    IF year < 100 THEN year + (IF year < 50 THEN 2000 ELSE 1900) ELSE year

\* <<year, month, day>> guessed from the first three numbers
GuessDate(nums) ==
    IF nums[1] > 31 \/ (nums[1] > 12 /\ nums[2] <= 12)
        THEN <<nums[1], nums[2], nums[3]>>       \* year first
    ELSE IF nums[1] <= 31 /\ nums[2] <= 12
        THEN <<nums[3], nums[2], nums[1]>>       \* day first
    ELSE IF nums[1] <= 12 /\ nums[2] <= 31
        THEN <<nums[3], nums[1], nums[2]>>       \* month first
    ELSE <<nums[3], nums[2], nums[1]>>

\* datetime.datetime(year, month, day, hour, minute, second) of the guess
GuessDateTime(ymd, hour, minute, second) ==
    DateTime(FullYear(ymd[1]), ymd[2], ymd[3], hour, minute, second)

\* nums = [int(n) for n in numbers] and the date-time built from them
GuessFrom(nums) ==
    GuessDateTime(GuessDate(nums), nums[4], nums[5],
                  IF Len(nums) > 5 THEN nums[6] ELSE 0)

\* the educated guess from the numbers found in the string
Guess(numbers) ==
    IF Len(numbers) < 5 THEN Failed
    ELSE IF \E i \in 1..Min(6, Len(numbers)) : ExceedsInt(numbers[i]) THEN Raised
    ELSE GuessFrom([i \in 1..Len(numbers) |-> ToInt(numbers[i])])

Heuristic(s) == Guess(FindNumbers(s, 0))

\* datetime.datetime.now() read when the wall clock shows t
Now(t) == <<"now", t>>

\* _parse_timestamp(timestamp_str) up to the last resort: the date-time
\* of the first layout that parses, else the educated guess (which may raise)
\* Faulty variant of ResolveClean, the educated guess tried before the
\* layouts: C17 must tell it from ResolveClean.
ResolveClean_guess_first(timestamp_clean) ==
    Otherwise(Heuristic(timestamp_clean), TryFormats(timestamp_clean, 1))

ResolveClean(timestamp_clean) ==
    Otherwise(TryFormats(timestamp_clean, 1), Heuristic(timestamp_clean))

\* timestamp_str = timestamp_str.strip(), then the layouts and the guess
Resolve(timestamp_str) == ResolveClean(Strip(timestamp_str))

\* ------------------------------------------------------------------------
\* Inputs of the resolver: three numbers joined by a separator, an optional
\* comma, a space and a time of day, and a few strings of other shapes
\* ------------------------------------------------------------------------

FirstNumbers ==
    {<<"2", "5">>,
     <<"1", "0">>,
     <<"2", "0", "2", "3">>,
     <<"3", "1">>}
SecondNumbers ==
    {<<"1", "0">>,
     <<"0", "2">>,
     <<"2", "5">>}
ThirdNumbers ==
    {<<"2", "0", "2", "3">>,
     <<"2", "3">>,
     <<"7", "5">>}
Separators == {<<"/">>, <<".">>, <<"-">>, <<" ">>}
Commas == {<<>>, <<",">>}
TimesOfDay ==
    {<<"0", "9", ":", "1", "5">>,
     <<"9", ":", "1", "5", " ", "A", "M">>,
     <<"0", "9", ":", "1", "5", ":", "3", "0">>,
     <<"0", "9", " ", "1", "5">>}
OtherTimestamps ==
    {<<"[", "2", "5", "/", "1", "0", "/", "2", "0", "2", "3", " ", "0", "9", ":", "1", "5", ":", "3", "0", "]">>,
     <<"9", "9", "9", "9", "9", "9", "9", "9", "9", "9", " ", "1", " ", "1", " ", "1", " ", "1">>,
     <<"1", "2", "/", "1", "0", "/", "2", "0", "2", "3", " ", "1", "2", ":", "0", "5", " ", "A", "M">>,
     <<"2", "9", "/", "0", "2", "/", "2", "0", "2", "4", " ", "1", "0", ":", "0", "0">>,
     <<>>,
     <<"2", "5", " ", "1", "0", " ", "2", "0", "2", "3">>}

Timestamps ==
    {a \o s \o b \o s \o c \o k \o <<" ">> \o h :
        a \in FirstNumbers, b \in SecondNumbers, c \in ThirdNumbers,
        s \in Separators, k \in Commas, h \in TimesOfDay}
    \cup OtherTimestamps

Range(f) == {f[x] : x \in DOMAIN f}

\* ------------------------------------------------------------------------
\* Inputs of the round trip: date-times and their formatting with a layout
\* ------------------------------------------------------------------------

DigitChar(d) ==
    CASE d = 0 -> "0" [] d = 1 -> "1" [] d = 2 -> "2" [] d = 3 -> "3"
      [] d = 4 -> "4" [] d = 5 -> "5" [] d = 6 -> "6" [] d = 7 -> "7"
      [] d = 8 -> "8" [] d = 9 -> "9"

\* n in two digits, zero-padded
TwoDigits(n) == <<DigitChar((n \div 10) % 10), DigitChar(n % 10)>>

\* the hour of the 12-hour clock
Hour12(H) == IF H % 12 = 0 THEN 12 ELSE H % 12

\* what strftime writes for one directive or literal character of a layout
FormatField(dir, dt) ==
    CASE dir = "%d" -> TwoDigits(dt[3])
      [] dir = "%m" -> TwoDigits(dt[2])
      [] dir = "%Y" -> TwoDigits(dt[1] \div 100) \o TwoDigits(dt[1])
      [] dir = "%y" -> TwoDigits(dt[1])
      [] dir = "%H" -> TwoDigits(dt[4])
      [] dir = "%I" -> TwoDigits(Hour12(dt[4]))
      [] dir = "%M" -> TwoDigits(dt[5])
      [] dir = "%S" -> TwoDigits(dt[6])
      [] dir = "%p" -> IF dt[4] < 12 THEN <<"A", "M">> ELSE <<"P", "M">>
      [] OTHER      -> <<dir>>

\* dt.strftime(fmt), from directive k of fmt on
RECURSIVE StrftimeFrom(_, _, _)
StrftimeFrom(dt, fmt, k) ==
    IF k > Len(fmt) THEN <<>>
    ELSE FormatField(fmt[k], dt) \o StrftimeFrom(dt, fmt, k + 1)

Strftime(dt, fmt) == StrftimeFrom(dt, fmt, 1)

Years == {1950, 1975, 2023}
Months == {10}
Days == {5, 25}
Hours == {0, 12, 15}
Minutes == {5}
Seconds == {0, 30}

DateTimes ==
    {<<y, m, d, H, M, S>> : y \in Years, m \in Months, d \in Days,
                            H \in Hours, M \in Minutes, S \in Seconds}

\* every date-time formatted with every layout
FormattedTimestamps ==
    {Strftime(dt, formats[i]) : dt \in DateTimes, i \in 1..Len(formats)}

\* the timestamps the message patterns capture from the lines of the corpus
CapturedTimestamps ==
    UNION {{Group(l, m, 1) : m \in Range(MatchTable[l]) \ {NoMatch}} : l \in KnownLines}

\* Resolve for every string the model resolves, computed once: the
\* strings given to the resolver on its own, those the patterns capture and
\* the formatted date-times
ResolveTable ==
    [s \in Timestamps \cup CapturedTimestamps \cup FormattedTimestamps |-> Resolve(s)]

Resolved(timestamp_str) == ResolveTable[timestamp_str]

\* _parse_timestamp(timestamp_str) when the wall clock shows t
_parse_timestamp(timestamp_str, t) == Otherwise(Resolved(timestamp_str), Now(t))

\* ------------------------------------------------------------------------
\* WhatsAppChatAnalyzer
\* ------------------------------------------------------------------------

\* format_patterns of _detect_format, in declaration order
format_names == <<"Brazilian/European (DD/MM/YYYY)", "US Format (MM/DD/YYYY AM/PM)",
                  "ISO Format (YYYY-MM-DD)", "Android Dot (DD.MM.YYYY)",
                  "Dash Format (DD-MM-YYYY)">>

format_patterns == <<
    D(1, 2) \o Ch("/") \o D(1, 2) \o Ch("/") \o D(2, 4),
    D(1, 2) \o Ch("/") \o D(1, 2) \o Ch("/") \o D(2, 4) \o Cls({}, TRUE, 0, Inf)
        \o Cls({"A", "P"}, FALSE, 1, 1) \o Ch("M"),
    D(4, 4) \o Ch("-") \o D(1, 2) \o Ch("-") \o D(1, 2),
    D(1, 2) \o Ch(".") \o D(1, 2) \o Ch(".") \o D(2, 4),
    D(1, 2) \o Ch("-") \o D(1, 2) \o Ch("-") \o D(2, 4) \o NotNext(Spaces) >>

\* re.search(pattern, line) for every family and every line of the corpus,
\* computed once
SearchAll(patterns, l) == [f \in 1..Len(patterns) |-> ReSearch(patterns[f], l)]

SearchTable == [l \in KnownLines |-> SearchAll(format_patterns, l)]

\* lines[:50]
SampleSize == 50

\* format_counts: for every family, the lines of the sample it is found in
FormatCounts(sample) ==
    [f \in 1..Len(format_names) |->
        Cardinality({i \in 1..Len(sample) : SearchTable[sample[i]][f]})]

\* Faulty variant of MaxKey, the last maximal key in place of the first:
\* C29 must tell it from MaxKey.
MaxKey_last_maximal(format_counts) ==
    CHOOSE f \in DOMAIN format_counts :
        /\ \A g \in DOMAIN format_counts : format_counts[g] <= format_counts[f]
        /\ \A g \in DOMAIN format_counts : g > f => format_counts[g] < format_counts[f]

\* max(format_counts, key=format_counts.get): the first maximal key
MaxKey(format_counts) ==
    CHOOSE f \in DOMAIN format_counts :
        /\ \A g \in DOMAIN format_counts : format_counts[g] <= format_counts[f]
        /\ \A g \in 1..(f - 1) : format_counts[g] < format_counts[f]

\* the name of the family detected, if any line has it
DetectedName(format_counts, detected) ==
    IF format_counts[detected] > 0 THEN format_names[detected] ELSE "Mixed/Unknown"

MostCommon(format_counts) == DetectedName(format_counts, MaxKey(format_counts))

\* Faulty variant of _detect_format, every line counted and not only the
\* first 50: C19 must tell it from _detect_format.
_detect_format_all_lines(lines) == MostCommon(FormatCounts(lines))

\* _detect_format(lines): the family most lines of the sample match
_detect_format(lines) ==
    MostCommon(FormatCounts(SubSeq(lines, 1, Min(SampleSize, Len(lines)))))

\* "Ligação de voz perdida"
LigacaoPerdida ==
    <<"L", "i", "g", "a", "ç", "ã", "o", " ", "d", "e", " ", "v", "o", "z", " ", "p", "e", "r", "d", "i", "d", "a">>
\* "Missed call"
MissedCall ==
    <<"M", "i", "s", "s", "e", "d", " ", "c", "a", "l", "l">>
\* the check for system messages on the stripped content
IsSystemContent(content) ==
    \/ StartsWith(content, <<"<">>)
    \/ StartsWith(content, <<LRM>>)
    \/ Contains(content, LigacaoPerdida)
    \/ Contains(content, MissedCall)

\* current_message = None
None == <<>>

\* self.parsing_stats of a new analyzer
NoStats == [total_lines |-> 0, parsed_messages |-> 0, skipped_lines |-> 0,
            multiline_messages |-> 0, system_messages |-> 0]

\* A frame f holds the analyzer's fields (messages, participants,
\* parsing_stats), the locals of parse_chat (current_message,
\* multiline_count, message_matched), and raised: an exception is on its
\* way out of parse_chat.

\* Faulty variant of Stored, the sender not added to the participants:
\* C10 must tell it from Stored.
Stored_participant_lost(f, instant, sender, content) ==
    IF instant = Raised THEN f
    ELSE [f EXCEPT !.messages = Append(@, [timestamp |-> instant,
                                           sender |-> sender, content |-> content])]

\* Faulty variant of Stored, sender and content passed in each other's
\* place: C9 must tell it from Stored.
Stored_fields_swapped(f, instant, sender, content) ==
    IF instant = Raised THEN f
    ELSE [f EXCEPT !.messages = Append(@, [timestamp |-> instant,
                                           sender |-> content, content |-> sender]),
                   !.participants = @ \cup {content}]

\* Faulty variant of Stored, the message put in front of the sequence: C11
\* must tell it from Stored.
Stored_in_front(f, instant, sender, content) ==
    IF instant = Raised THEN f
    ELSE [f EXCEPT !.messages = <<[timestamp |-> instant, sender |-> sender,
                                   content |-> content]>> \o @,
                   !.participants = @ \cup {sender}]

\* Faulty variant of Stored, the exception of WhatsAppMessage not caught:
\* C16 must tell it from Stored.
Stored_exception_uncaught(f, instant, sender, content) ==
    IF instant = Raised THEN [f EXCEPT !.raised = TRUE]
    ELSE [f EXCEPT !.messages = Append(@, [timestamp |-> instant,
                                           sender |-> sender, content |-> content]),
                   !.participants = @ \cup {sender}]

\* the message with the resolved instant appended and its sender added to
\* the participants; `except Exception` skips the message when
\* WhatsAppMessage raises
Stored(f, instant, sender, content) ==
    IF instant = Raised THEN f
    ELSE [f EXCEPT !.messages = Append(@, [timestamp |-> instant,
                                           sender |-> sender, content |-> content]),
                   !.participants = @ \cup {sender}]

\* _add_message(timestamp, sender, content) when the wall clock shows t
_add_message(f, timestamp, sender, content, t) ==
    Stored(f, _parse_timestamp(timestamp, t), sender, content)

\* the open buffer counted when it has continuation lines
Counted(f) ==
    IF f.multiline_count > 0
    THEN [f EXCEPT !.parsing_stats.multiline_messages = @ + 1]
    ELSE f

\* committing the open buffer: count it when it has continuation lines, add it
Commit(f, t) ==
    _add_message(Counted(f), f.current_message[1], f.current_message[2],
                 f.current_message[3], t)

\* finish previous message if exists
Flushed(f, t) ==
    IF f.current_message # None
    THEN [Commit(f, t) EXCEPT !.current_message = None, !.multiline_count = 0]
    ELSE f

RECURSIVE ForPattern(_, _, _, _, _), Matched(_, _, _, _, _, _, _, _)

\* Faulty variant of Matched, a system/media notice counted and then
\* buffered like any content (the `continue` left out): C4 must tell it from
\* Matched.
Matched_system_buffered(g, line, matches, i, t, timestamp, sender, content) ==
    IF content # <<>> /\ IsSystemContent(content)
    THEN [g EXCEPT !.parsing_stats.system_messages = @ + 1,
                   !.current_message = <<timestamp, sender, content>>,
                   !.message_matched = TRUE]
    ELSE IF content # <<>>
    THEN [g EXCEPT !.current_message = <<timestamp, sender, content>>,
                   !.message_matched = TRUE]
    ELSE ForPattern(g, line, matches, i + 1, t)

\* the loop `for pattern in message_patterns` on one stripped line, from
\* pattern i on; matches[i] is re.match(message_patterns[i], line)
ForPattern(f, line, matches, i, t) ==
    IF i > Len(matches) THEN f
    ELSE IF matches[i] = NoMatch THEN ForPattern(f, line, matches, i + 1, t)
    ELSE Matched(Flushed(f, t), line, matches, i, t, Group(line, matches[i], 1),
                 Strip(Group(line, matches[i], 2)), Strip(Group(line, matches[i], 3)))

\* pattern i matched and the previous message is finished: the groups
\* timestamp, sender and content, trimmed, become the buffer unless the
\* content is a system/media notice
Matched(g, line, matches, i, t, timestamp, sender, content) ==
    IF content # <<>> /\ IsSystemContent(content)
    THEN \* `continue` resumes the loop over the patterns
         ForPattern([g EXCEPT !.parsing_stats.system_messages = @ + 1],
                    line, matches, i + 1, t)
    ELSE IF content # <<>>
    THEN [g EXCEPT !.current_message = <<timestamp, sender, content>>,
                   !.message_matched = TRUE]
    ELSE ForPattern(g, line, matches, i + 1, t)

\* Faulty variant of Unmatched, a continuation line appended without the
\* space: C8 must tell it from Unmatched.
Unmatched_joined_without_space(g, line) ==
    IF ~g.message_matched /\ g.current_message # None
    THEN [g EXCEPT !.current_message = <<@[1], @[2], @[3] \o line>>,
                   !.multiline_count = @ + 1]
    ELSE IF ~g.message_matched
    THEN [g EXCEPT !.parsing_stats.skipped_lines = @ + 1]
    ELSE g

\* Faulty variant of Unmatched, a continuation line also counted as a
\* skipped line (`if` in place of `elif`): C26 must tell it from Unmatched.
Unmatched_continuation_skipped(g, line) ==
    IF ~g.message_matched /\ g.current_message # None
    THEN [g EXCEPT !.current_message = <<@[1], @[2], @[3] \o <<" ">> \o line>>,
                   !.multiline_count = @ + 1,
                   !.parsing_stats.skipped_lines = @ + 1]
    ELSE IF ~g.message_matched
    THEN [g EXCEPT !.parsing_stats.skipped_lines = @ + 1]
    ELSE g

\* after the loop over the patterns: a line no pattern matched continues
\* the open buffer, or is skipped when there is none
Unmatched(g, line) ==
    IF ~g.message_matched /\ g.current_message # None
    THEN [g EXCEPT !.current_message = <<@[1], @[2], @[3] \o <<" ">> \o line>>,
                   !.multiline_count = @ + 1]
    ELSE IF ~g.message_matched
    THEN [g EXCEPT !.parsing_stats.skipped_lines = @ + 1]
    ELSE g

\* the body of `for line in lines` for one stripped line
StrippedLine(f, line, t) ==
    IF line = <<>> THEN f
    ELSE Unmatched(ForPattern([f EXCEPT !.message_matched = FALSE], line,
                              MatchTable[line], 1, t), line)

\* the body of `for line in lines` for one raw line
LineBody(f, raw, t) == StrippedLine(f, Strip(raw), t)

\* self.parsing_stats['parsed_messages'] = len(self.messages)
WithParsed(f) == [f EXCEPT !.parsing_stats.parsed_messages = Len(f.messages)]

\* after the loop: the last message, then parsed_messages
Finish(f, t) == WithParsed(IF f.current_message # None THEN Commit(f, t) ELSE f)

\* ------------------------------------------------------------------------
\* Bounds and inputs of the analyzer
\* ------------------------------------------------------------------------

\* the lines one analyzer is given, over all its parse_chat calls
MaxLines == 3
\* the parse_chat calls on one analyzer
MaxCalls == 2
\* the readings of the wall clock
MaxClock == 2
\* the resolutions of one timestamp string
MaxResolutions == 2

\* a chat text is the sequence of its lines (the text between the "\n")
TextsOver(corpus, n) == UNION {[1..k -> corpus] : k \in 1..n}

Texts(n) == TextsOver(Corpus, n)

\* chat_text.strip().split('\n'): the whitespace that strip() removes
\* includes whole blank lines at both ends; an all-blank text gives ['']
SplitLines(chat_text) ==
    LET keep == {i \in 1..Len(chat_text) : Strip(chat_text[i]) # <<>>}
    IN  IF keep = {} THEN << <<>> >>
        ELSE LET lo == CHOOSE i \in keep : \A j \in keep : i <= j
                 hi == CHOOSE i \in keep : \A j \in keep : j <= i
             IN  [i \in 1..(hi - lo + 1) |->
                    LET l == chat_text[lo + i - 1]
                        l1 == IF i = 1 THEN LStrip(l) ELSE l
                    IN  IF i = hi - lo + 1 THEN RStrip(l1) ELSE l1]

\* the loop `for line in lines` from line i on
RECURSIVE ForLines(_, _, _, _)
ForLines(f, ls, i, t) ==
    IF i > Len(ls) THEN f ELSE ForLines(LineBody(f, ls[i], t), ls, i + 1, t)

\* a new analyzer with the locals of parse_chat not yet set
NewFrame ==
    [messages |-> <<>>, participants |-> {}, parsing_stats |-> NoStats,
     current_message |-> None, multiline_count |-> 0, message_matched |-> FALSE,
     raised |-> FALSE]

\* parse_chat(chat_text) as one function of the analyzer f, every clock
\* reading being t
parse_chat(f, chat_text, t) ==
    LET ls == SplitLines(chat_text)
        start == [f EXCEPT !.parsing_stats.total_lines = Len(ls),
                           !.current_message = None, !.multiline_count = 0]
    IN  Finish(ForLines(start, ls, 1, t), t)

\* ------------------------------------------------------------------------
\* The core analyzer: WhatsAppAnalyzer of whatsapp_analyzer_core
\* ------------------------------------------------------------------------

\* \s*-\s*([^:]+):\s*(.*)
CoreDashTail ==
    Sp0 \o Ch("-") \o Sp0 \o Open(2) \o Cls({":"}, TRUE, 1, Inf) \o Close(2)
        \o Ch(":") \o Sp0 \o Open(3) \o Cls({}, TRUE, 0, Inf) \o Close(3)

\* \d{1,2}/\d{1,2}/ and a year of n digits
CoreDate(n) == D(1, 2) \o Ch("/") \o D(1, 2) \o Ch("/") \o D(n, n)

\* \s+\d{1,2}:\d{2}
CoreClock == Sp1 \o D(1, 2) \o Ch(":") \o D(2, 2)

OptComma == Cls({","}, FALSE, 0, 1)

core_patterns == <<
    \* DD/MM/YYYY, HH:MM - Name: Message
    Open(1) \o CoreDate(4) \o OptComma \o CoreClock \o Close(1) \o CoreDashTail,
    \* DD/MM/YYYY HH:MM - Name: Message
    Open(1) \o CoreDate(4) \o CoreClock \o Close(1) \o CoreDashTail,
    \* DD/MM/YY, HH:MM - Name: Message
    Open(1) \o CoreDate(2) \o OptComma \o CoreClock \o Close(1) \o CoreDashTail,
    \* [DD/MM/YYYY, HH:MM:SS] Name: Message
    Open(1) \o Ch("[") \o CoreDate(4) \o OptComma \o CoreClock \o Ch(":") \o D(2, 2)
        \o Ch("]") \o Close(1) \o Sp1 \o Open(2) \o Cls({":"}, TRUE, 1, Inf) \o Close(2)
        \o Ch(":") \o Sp0 \o Open(3) \o Cls({}, TRUE, 0, Inf) \o Close(3) >>

\* re.match(pattern, line) for every pattern of the core analyzer and every
\* line of the corpus, computed once
CoreMatchTable == [l \in KnownLines |-> MatchAll(core_patterns, l)]

\* %m/%d/%Y with a 24-hour time
MDY(comma) == <<"%m", "/", "%d", "/", "%Y">> \o comma \o <<" ", "%H", ":", "%M">>

core_formats == <<
    DMY("/", "%Y", Comma, <<>>), DMY("/", "%Y", <<>>, <<>>),
    DMY("/", "%y", Comma, <<>>), DMY("/", "%y", <<>>, <<>>),
    MDY(Comma), MDY(<<>>),
    DMY("/", "%Y", Comma, Secs), DMY("/", "%Y", <<>>, Secs) >>

\* timestamp_str.strip('[]')
StripBrackets(s) ==
    LET keep == {i \in 1..Len(s) : s[i] \notin {"[", "]"}}
    IN  IF keep = {} THEN <<>>
        ELSE LET lo == CHOOSE i \in keep : \A j \in keep : i <= j
                 hi == CHOOSE i \in keep : \A j \in keep : j <= i
             IN  SubSeq(s, lo, hi)

\* the loop over the formats of the core analyzer: the first that parses,
\* or None
RECURSIVE CoreTryFormats(_, _)
CoreTryFormats(s, i) ==
    IF i > Len(core_formats) THEN None
    ELSE Otherwise(Strptime(s, core_formats[i]), CoreTryFormats(s, i + 1))

\* WhatsAppAnalyzer._parse_timestamp
core_parse_timestamp(timestamp_str) == CoreTryFormats(StripBrackets(timestamp_str), 1)

\* len(content.split())
WordCount(content) ==
    Cardinality({i \in 1..Len(content) :
                    /\ content[i] \notin Spaces
                    /\ (i = 1 \/ content[i - 1] \in Spaces)})

\* WhatsAppAnalyzer()
NewCore ==
    [messages |-> <<>>, participants |-> {},
     parsing_stats |-> [total_lines |-> 0, parsed_messages |-> 0,
                        success_rate |-> <<0, 1>>],
     calls |-> 0, returned |-> None,
     parsed_count |-> 0, current_message |-> None, matched |-> FALSE]

\* WhatsAppAnalyzer._add_message
core_add_message(c, timestamp, sender, content) ==
    IF timestamp # None /\ sender # <<>> /\ content # <<>>
    THEN [c EXCEPT !.messages = Append(@, [timestamp |-> timestamp, sender |-> sender,
                                           content |-> content,
                                           word_count |-> WordCount(content)]),
                   !.participants = @ \cup {sender}]
    ELSE c

\* save previous multiline message; current_message stays as it is
CoreSaved(c) ==
    IF c.current_message # None
    THEN [core_add_message(c, c.current_message[1], c.current_message[2],
                           c.current_message[3])
            EXCEPT !.parsed_count = @ + 1]
    ELSE c

RECURSIVE CoreForPattern(_, _, _, _), CoreMatched(_, _, _, _, _)

\* the loop `for pattern in patterns` on one stripped line, from pattern i on
CoreForPattern(c, line, matches, i) ==
    IF i > Len(matches) THEN c
    ELSE IF matches[i] = NoMatch THEN CoreForPattern(c, line, matches, i + 1)
    ELSE CoreMatched(CoreSaved(c), line, matches, i,
                     core_parse_timestamp(Group(line, matches[i], 1)))

\* pattern i matched and the previous message is saved: the line opens a
\* message if its timestamp parses, else the next pattern is tried
CoreMatched(c, line, matches, i, timestamp) ==
    IF timestamp # None
    THEN [c EXCEPT !.current_message = <<timestamp, Strip(Group(line, matches[i], 2)),
                                         Strip(Group(line, matches[i], 3))>>,
                   !.matched = TRUE]
    ELSE CoreForPattern(c, line, matches, i + 1)

\* if no pattern matched, the line continues the previous message
CoreUnmatched(c, line) ==
    IF ~c.matched /\ c.current_message # None
    THEN [c EXCEPT !.current_message = <<@[1], @[2], @[3] \o <<" ">> \o line>>]
    ELSE c

CoreStrippedLine(c, line) ==
    IF line = <<>> THEN c
    ELSE CoreUnmatched(CoreForPattern([c EXCEPT !.matched = FALSE], line,
                                      CoreMatchTable[line], 1), line)

RECURSIVE CoreForLines(_, _, _)
CoreForLines(c, ls, i) ==
    IF i > Len(ls) THEN c
    ELSE CoreForLines(CoreStrippedLine(c, Strip(ls[i])), ls, i + 1)

\* the end of parse_chat: the statistics and the returned value
CoreReturn(c, total_lines) ==
    [c EXCEPT !.parsing_stats = [total_lines |-> total_lines,
                                 parsed_messages |-> c.parsed_count,
                                 success_rate |-> <<100 * c.parsed_count, total_lines>>],
              !.returned = Len(c.messages) > 0,
              !.calls = @ + 1]

CoreParseLines(c, ls) ==
    CoreReturn(CoreSaved(CoreForLines([c EXCEPT !.parsed_count = 0,
                                                !.current_message = None], ls, 1)),
               Len(ls))

\* WhatsAppAnalyzer.parse_chat(chat_text)
core_parse_chat(c, chat_text) == CoreParseLines(c, SplitLines(chat_text))

\* ------------------------------------------------------------------------
\* State
\* ------------------------------------------------------------------------

VARIABLES
    messages,            \* self.messages
    participants,        \* self.participants
    detected_format,     \* self.detected_format
    parsing_stats,       \* self.parsing_stats
    lines,               \* parse_chat: lines
    line_no,             \* parse_chat: the position of `for line in lines`
    current_message,     \* parse_chat: current_message
    multiline_count,     \* parse_chat: multiline_count
    pc,                  \* "idle" between calls, "loop" inside parse_chat,
                         \* "raised" once parse_chat has raised
    calls,               \* history: the finished parse_chat calls
    inputs,              \* history: the chat_text of every call so far
    split_lines,         \* history: the lines of every call so far
    continuation_lines,  \* history: the lines appended to a buffer in this call
    open_origin,         \* history: <<call, line number>> of the line that opened the buffer
    origins,             \* history: for every message, the origin of its buffer
    returned,            \* the value the last operation on the analyzer returned
    core,                \* the core analyzer, given the same texts
    clock,               \* the wall clock datetime.now() reads
    raw_timestamp,       \* resolver: the timestamp_str under resolution
    outcomes,            \* resolver: the results of its resolutions so far
    layout,              \* round trip: the position in formats of the layout
    original              \* round trip: the date-time that was formatted

vars == <<messages, participants, detected_format, parsing_stats, lines, line_no,
          current_message, multiline_count, pc, calls, inputs, split_lines,
          continuation_lines,
          open_origin, origins, returned, core, clock, raw_timestamp,
          outcomes, layout, original>>

analyzerVars == <<messages, participants, detected_format, parsing_stats, lines,
                  line_no, current_message, multiline_count, pc, calls, inputs,
                  split_lines,
                  continuation_lines, open_origin, origins, returned, core>>

resolverVars == <<raw_timestamp, outcomes, layout, original>>

\* WhatsAppChatAnalyzer.__init__
NewAnalyzer ==
    /\ messages = <<>>
    /\ participants = {}
    /\ detected_format = "Unknown"
    /\ parsing_stats = NoStats
    /\ lines = <<>>
    /\ line_no = 0
    /\ current_message = None
    /\ multiline_count = 0
    /\ pc = "idle"
    /\ calls = 0
    /\ inputs = <<>>
    /\ split_lines = <<>>
    /\ continuation_lines = 0
    /\ open_origin = <<0, 0>>
    /\ origins = <<>>
    /\ returned = None
    /\ core = NewCore

Init ==
    /\ NewAnalyzer
    /\ clock = 0
    /\ raw_timestamp = <<>>
    /\ outcomes = <<>>
    /\ layout = 0
    /\ original = <<>>

Frame ==
    [messages |-> messages, participants |-> participants,
     parsing_stats |-> parsing_stats, current_message |-> current_message,
     multiline_count |-> multiline_count, message_matched |-> FALSE,
     raised |-> FALSE]

IsNow(instant) == Len(instant) = 2

\* the buffer's timestamp resolves to datetime.now()
ReadsClock(buffer) ==
    buffer # None /\ IsNow(_parse_timestamp(buffer[1], 0))

LinesGiven == IF inputs = <<>> THEN 0
              ELSE LET n[i \in 0..Len(inputs)] ==
                         IF i = 0 THEN 0 ELSE n[i - 1] + Len(inputs[i])
                   IN  n[Len(inputs)]

\* parse_chat(chat_text) up to the loop over the lines
ParseStart(chat_text) ==
    /\ lines' = SplitLines(chat_text)
    /\ parsing_stats' = [parsing_stats EXCEPT !.total_lines = Len(lines')]
    /\ detected_format' = _detect_format(lines')
    /\ current_message' = None
    /\ multiline_count' = 0
    /\ line_no' = 1
    /\ pc' = "loop"
    /\ inputs' = Append(inputs, chat_text)
    /\ split_lines' = Append(split_lines, lines')
    /\ continuation_lines' = 0
    /\ returned' = None
    /\ UNCHANGED <<messages, participants, calls, open_origin, origins, clock, core,
                   resolverVars>>

\* one iteration of `for line in lines`
ParseLine ==
    /\ pc = "loop"
    /\ line_no <= Len(lines)
    /\ \E t \in (IF ReadsClock(current_message) THEN clock..MaxClock ELSE {clock}) :
       \E f \in {LineBody(Frame, lines[line_no], t)} :
         /\ messages' = f.messages
         /\ participants' = f.participants
         /\ parsing_stats' = f.parsing_stats
         /\ current_message' = f.current_message
         /\ multiline_count' = f.multiline_count
         /\ continuation_lines' = IF f.multiline_count > multiline_count
                                  THEN continuation_lines + 1
                                  ELSE continuation_lines
         /\ open_origin' = IF f.message_matched THEN <<calls + 1, line_no>> ELSE open_origin
         /\ origins' = IF Len(f.messages) > Len(messages)
                       THEN Append(origins, open_origin)
                       ELSE origins
         /\ clock' = IF Len(f.messages) > Len(messages) THEN t ELSE clock
         /\ pc' = IF f.raised THEN "raised" ELSE pc
    /\ line_no' = line_no + 1
    /\ UNCHANGED <<detected_format, lines, calls, inputs, split_lines, returned,
                   core,
                   resolverVars>>

\* the end of parse_chat, after the last line
ParseFinish ==
    /\ pc = "loop"
    /\ line_no > Len(lines)
    /\ \E t \in (IF ReadsClock(current_message) THEN clock..MaxClock ELSE {clock}) :
       \E f \in {Finish(Frame, t)} :
         /\ messages' = f.messages
         /\ participants' = f.participants
         /\ parsing_stats' = f.parsing_stats
         /\ origins' = IF Len(f.messages) > Len(messages)
                       THEN Append(origins, open_origin)
                       ELSE origins
         /\ clock' = t
         /\ pc' = IF f.raised THEN "raised" ELSE "idle"
    /\ calls' = calls + 1
    /\ returned' = None
    /\ UNCHANGED <<detected_format, lines, line_no, current_message, multiline_count,
                   inputs, split_lines, continuation_lines, open_origin, core,
                   resolverVars>>

\* a caller passes some text to parse_chat of this analyzer
Call ==
    /\ pc = "idle"
    /\ calls < MaxCalls
    /\ \E chat_text \in Texts(MaxLines - LinesGiven) : ParseStart(chat_text)

Next ==
    \/ Call
    \/ ParseLine
    \/ ParseFinish

Spec == Init /\ [][Next]_vars

\* ------------------------------------------------------------------------
\* The analyzer on transcripts of system/media notices
\* ------------------------------------------------------------------------

CallNotices ==
    /\ pc = "idle"
    /\ calls < MaxCalls
    /\ \E chat_text \in TextsOver(NoticeCorpus, MaxLines - LinesGiven) :
         ParseStart(chat_text)

NextNotices ==
    \/ CallNotices
    \/ ParseLine
    \/ ParseFinish

SpecNotices == Init /\ [][NextNotices]_vars

\* ------------------------------------------------------------------------
\* The analyzer on transcripts of several timestamp families, short ones
\* and ones longer than the sample of _detect_format
\* ------------------------------------------------------------------------

\* lines that fill the sample but for its last line
Padding == [i \in 1..(SampleSize - 1) |-> There]

FamilyTexts ==
    TextsOver(FamilyCorpus, MaxLines)
        \cup {Padding \o tail : tail \in TextsOver(FamilyCorpus, MaxLines)}

\* a caller passes such a text to parse_chat of a fresh analyzer
CallFamilies ==
    /\ pc = "idle"
    /\ calls = 0
    /\ \E chat_text \in FamilyTexts : ParseStart(chat_text)

NextFamilies ==
    \/ CallFamilies
    \/ ParseLine
    \/ ParseFinish

SpecFamilies == Init /\ [][NextFamilies]_vars

\* ------------------------------------------------------------------------
\* The analyzer and its reports
\* ------------------------------------------------------------------------

Max(a, b) == IF a > b THEN a ELSE b

\* n / d rounded to the nearest integer, a tie to the even one, as round()
RoundDiv(n, d) ==
    IF 2 * (n % d) < d THEN n \div d
    ELSE IF 2 * (n % d) > d THEN (n \div d) + 1
    ELSE IF (n \div d) % 2 = 0 THEN n \div d
    ELSE (n \div d) + 1

\* max(1, total_lines - skipped_lines)
RateDenominator(stats) == Max(1, stats.total_lines - stats.skipped_lines)

\* Faulty variant of SuccessRate, the skipped lines not subtracted: C13 must
\* tell it from SuccessRate.
SuccessRate_skipped_not_subtracted(stats) ==
    RoundDiv(10000 * stats.parsed_messages, Max(1, stats.total_lines))

\* round(success_rate, 2), in hundredths of a percent
SuccessRate(stats) ==
    RoundDiv(10000 * stats.parsed_messages, RateDenominator(stats))

\* Faulty variant of RateAbove, the threshold itself counted as above it
\* (`>=` in place of `>`): C27 must tell it from RateAbove.
RateAbove_inclusive(stats, percent) ==
    100 * stats.parsed_messages >= percent * Max(1, stats.total_lines - stats.skipped_lines)

\* success_rate > percent, for the rate before rounding
RateAbove(stats, percent) ==
    100 * stats.parsed_messages > percent * RateDenominator(stats)

FormatQuality(stats) ==
    IF RateAbove(stats, 90) THEN "Excellent"
    ELSE IF RateAbove(stats, 70) THEN "Good"
    ELSE IF RateAbove(stats, 50) THEN "Fair"
    ELSE "Poor"

\* get_parsing_report()
GetParsingReport ==
    /\ pc = "idle"
    /\ returned' = [op |-> "get_parsing_report",
                    detected_format |-> detected_format,
                    parsing_statistics |-> parsing_stats,
                    success_rate |-> SuccessRate(parsing_stats),
                    format_quality |-> FormatQuality(parsing_stats)]
    /\ UNCHANGED <<messages, participants, detected_format, parsing_stats, lines,
                   line_no, current_message, multiline_count, pc, calls, inputs,
                   split_lines, continuation_lines, open_origin, origins, clock,
                   core,
                   resolverVars>>

NextReports ==
    \/ Call
    \/ ParseLine
    \/ ParseFinish
    \/ GetParsingReport

SpecReports == Init /\ [][NextReports]_vars

\* ------------------------------------------------------------------------
\* The reports on longer transcripts: some lines no pattern matches, then
\* message-start lines, then lines that continue the last message
\* ------------------------------------------------------------------------

\* the message-start lines of such a transcript
MaxStarts == 9
\* the continuation lines of such a transcript
MaxContinuations == 3

Repeat(l, n) == [i \in 1..n |-> l]

ReportTexts ==
    {Repeat(There, s) \o Repeat(AnnHi, p) \o Repeat(There, c) :
        s \in 0..1, p \in 0..MaxStarts, c \in 0..MaxContinuations} \ {<<>>}

\* a caller passes such a text to parse_chat of a fresh analyzer
CallReportTexts ==
    /\ pc = "idle"
    /\ calls = 0
    /\ \E chat_text \in ReportTexts : ParseStart(chat_text)

NextQuality ==
    \/ CallReportTexts
    \/ ParseLine
    \/ ParseFinish
    \/ GetParsingReport

SpecQuality == Init /\ [][NextQuality]_vars

\* ------------------------------------------------------------------------
\* The analyses of the messages, and the core analyzer beside the analyzer
\* ------------------------------------------------------------------------

AnalysisOperations == {"linguistic_analysis", "psychological_analysis",
                       "communication_analysis", "relationship_coaching_insights"}

NoMessagesError == "No messages to analyze"

\* Faulty variant of Analysis, the check for an empty message list left
\* out: C20 must tell it from Analysis.
Analysis_unguarded(op) ==
    [op |-> op, error |-> "", total_messages |-> Len(messages)]

\* what an analysis operation returns: the error value when there is no
\* message, else its figures, of which the model keeps their number of
\* messages (error "" stands for a result without the key 'error')
Analysis(op) ==
    IF Len(messages) = 0
    THEN [op |-> op, error |-> NoMessagesError, total_messages |-> 0]
    ELSE [op |-> op, error |-> "", total_messages |-> Len(messages)]

\* linguistic_analysis(), psychological_analysis(), communication_analysis()
\* or relationship_coaching_insights()
Analyze ==
    /\ pc = "idle"
    /\ \E op \in AnalysisOperations : returned' = Analysis(op)
    /\ UNCHANGED <<messages, participants, detected_format, parsing_stats, lines,
                   line_no, current_message, multiline_count, pc, calls, inputs,
                   split_lines, continuation_lines, open_origin, origins, clock, core,
                   resolverVars>>

\* generate_comprehensive_report(): the four analyses under their keys
GenerateComprehensiveReport ==
    /\ pc = "idle"
    /\ returned' = [op |-> "generate_comprehensive_report",
                    linguistic_analysis |-> Analysis("linguistic_analysis"),
                    psychological_analysis |-> Analysis("psychological_analysis"),
                    communication_analysis |-> Analysis("communication_analysis"),
                    relationship_insights |-> Analysis("relationship_coaching_insights")]
    /\ UNCHANGED <<messages, participants, detected_format, parsing_stats, lines,
                   line_no, current_message, multiline_count, pc, calls, inputs,
                   split_lines, continuation_lines, open_origin, origins, clock, core,
                   resolverVars>>

\* the core analyzer is given the next of the texts the analyzer was given
CoreParseChat ==
    /\ pc = "idle"
    /\ core.calls < calls
    /\ core' = core_parse_chat(core, inputs[core.calls + 1])
    /\ UNCHANGED <<messages, participants, detected_format, parsing_stats, lines,
                   line_no, current_message, multiline_count, pc, calls, inputs,
                   split_lines, continuation_lines, open_origin, origins, returned,
                   clock, resolverVars>>

\* a caller passes some text to parse_chat of a fresh analyzer
CallFresh ==
    /\ pc = "idle"
    /\ calls = 0
    /\ \E chat_text \in Texts(MaxLines) : ParseStart(chat_text)

NextOutcomes ==
    \/ CallFresh
    \/ ParseLine
    \/ ParseFinish
    \/ Analyze
    \/ GenerateComprehensiveReport
    \/ CoreParseChat

SpecOutcomes == Init /\ [][NextOutcomes]_vars

\* ------------------------------------------------------------------------
\* The two analyzers on transcripts with message-start lines without content
\* ------------------------------------------------------------------------

\* a caller passes such a text to parse_chat of a fresh analyzer
CallEmptyContent ==
    /\ pc = "idle"
    /\ calls = 0
    /\ \E chat_text \in TextsOver(EmptyContentCorpus, MaxLines) : ParseStart(chat_text)

NextCore ==
    \/ CallEmptyContent
    \/ ParseLine
    \/ ParseFinish
    \/ CoreParseChat

SpecCore == Init /\ [][NextCore]_vars

\* ------------------------------------------------------------------------
\* The resolver on its own: one string, resolved again and again
\* ------------------------------------------------------------------------

InitResolver ==
    /\ NewAnalyzer
    /\ clock = 0
    /\ raw_timestamp \in Timestamps
    /\ outcomes = <<>>
    /\ layout = 0
    /\ original = <<>>

\* one call of _parse_timestamp(raw_timestamp); the wall clock is read, at
\* some t not before its last reading, only on the last resort
ResolveOnce ==
    /\ Len(outcomes) < MaxResolutions
    /\ \E t \in (IF Resolved(raw_timestamp) = Failed THEN clock..MaxClock ELSE {clock}) :
         /\ outcomes' = Append(outcomes, _parse_timestamp(raw_timestamp, t))
         /\ clock' = t
    /\ UNCHANGED <<analyzerVars, raw_timestamp, layout, original>>

NextResolver == ResolveOnce

SpecResolver == InitResolver /\ [][NextResolver]_vars

\* ------------------------------------------------------------------------
\* The round trip: a date-time formatted with a layout of the list, then
\* resolved
\* ------------------------------------------------------------------------

InitRoundTrip ==
    /\ NewAnalyzer
    /\ clock = 0
    /\ layout \in 1..Len(formats)
    /\ original \in DateTimes
    /\ raw_timestamp = Strftime(original, formats[layout])
    /\ outcomes = <<>>

NextRoundTrip == ResolveOnce

SpecRoundTrip == InitRoundTrip /\ [][NextRoundTrip]_vars

\* ------------------------------------------------------------------------
\* Vocabulary of the properties
\* ------------------------------------------------------------------------

\* for every line of the corpus, computed once: the line after
\* line.strip(), the first pattern of message_patterns that matches it (0 if
\* none), the groups that pattern captures, and whether the captured content
\* is a system/media notice
StartTable ==
    [l \in KnownLines |->
        LET hits == {i \in 1..Len(message_patterns) : MatchTable[l][i] # NoMatch}
            first == IF hits = {} THEN 0 ELSE CHOOSE i \in hits : \A j \in hits : i <= j
            groups == IF first = 0 THEN <<>>
                      ELSE [g \in 1..3 |-> Group(l, MatchTable[l][first], g)]
        IN  [stripped |-> Strip(l), first |-> first, groups |-> groups,
             system |-> first # 0 /\ IsSystemContent(Strip(groups[3]))]]

\* line.strip() of a line of the corpus
Stripped(line) == StartTable[line].stripped

FirstMatch(line) == StartTable[line].first

StartsMessage(line) == FirstMatch(line) # 0

\* the groups the first matching pattern captures
Captured(line, g) == StartTable[line].groups[g]

\* a line that starts a message and whose content is a system/media notice
SystemLine(line) == StartTable[line].system

\* a line that matches no message-start pattern and is not blank
PlainLine(line) == line # <<>> /\ ~StartsMessage(line)

NonEmptyLines(ls) == Cardinality({i \in 1..Len(ls) : Stripped(ls[i]) # <<>>})

\* parse_chat is about to process lines[line_no]
AtLine == pc = "loop" /\ line_no <= Len(lines)
Line == Stripped(lines[line_no])

\* one parse_chat call on a fresh analyzer has returned
ParsedOnce == pc = "idle" /\ calls = 1

\* the lines of call c
CallLines(c) == split_lines[c]

\* content, then the plain lines from ls[q] up to the next message-start
\* line, each after one space
RECURSIVE Continued(_, _, _)
Continued(content, ls, q) ==
    IF q > Len(ls) THEN content
    ELSE LET l == Stripped(ls[q]) IN
         IF l = <<>> THEN Continued(content, ls, q + 1)
         ELSE IF StartsMessage(l) THEN content
         ELSE Continued(content \o <<" ">> \o l, ls, q + 1)

Ann == <<"A", "n", "n">>
Bob == <<"B", "o", "b">>

\* ------------------------------------------------------------------------
\* Properties
\* ------------------------------------------------------------------------

\* C1: processing a line that matches a message-start pattern and whose
\* content is a system/media notice adds exactly 1 to system_messages, and a
\* transcript of one such line ends with no message and system_messages = 1.
C1_SystemLineCountedOnce ==
    [][/\ (AtLine /\ SystemLine(Line))
            => parsing_stats'.system_messages = parsing_stats.system_messages + 1
       /\ (pc = "loop" /\ pc' = "idle" /\ calls' = 1
             /\ Len(lines) = 1 /\ SystemLine(Stripped(lines[1])))
            => (messages' = <<>> /\ parsing_stats'.system_messages = 1)]_vars

\* C2: after one parse_chat call on a fresh analyzer the number of non-empty
\* lines is parsed_messages + skipped_lines + system_messages + the number
\* of continuation lines.
C2_EveryLineCountedOnce ==
    ParsedOnce =>
        NonEmptyLines(lines) =
            parsing_stats.parsed_messages + parsing_stats.skipped_lines
              + parsing_stats.system_messages + continuation_lines

\* the transcript is one message-start line and then K >= 1 plain lines
OneStartThenPlain ==
    /\ Len(lines) >= 2
    /\ StartsMessage(Stripped(lines[1]))
    /\ ~SystemLine(Stripped(lines[1]))
    /\ \A i \in 2..Len(lines) : PlainLine(Stripped(lines[i]))

\* C3: one message-start line followed by K >= 1 plain lines gives exactly
\* one message, whose content is the start line's content and the K lines
\* joined by single spaces in order, and multiline_messages = 1.
C3_OneMultilineMessage ==
    (ParsedOnce /\ OneStartThenPlain) =>
        /\ Len(messages) = 1
        /\ messages[1].content = Continued(Strip(Captured(Stripped(lines[1]), 3)), lines, 2)
        /\ parsing_stats.multiline_messages = 1

\* a system/media line was processed in this call and no other kind of
\* message-start line since
AfterSystemLine ==
    /\ pc = "loop"
    /\ \E p \in 1..(line_no - 1) :
         /\ p <= Len(lines)
         /\ SystemLine(Stripped(lines[p]))
         /\ \A q \in (p + 1)..(line_no - 1) :
              q <= Len(lines) => ~StartsMessage(Stripped(lines[q]))

\* C4: after a system/media line no buffer is open until the next other
\* message-start line: the system line produces no message of its own (a
\* message added while it is processed is the buffer that was open), and a
\* plain line that follows is discarded, the messages staying as they are.
C4_NoBufferAfterSystemLine ==
    /\ [](AfterSystemLine => current_message = None)
    /\ [][/\ (AtLine /\ SystemLine(Line)) =>
               \/ messages' = messages
               \/ /\ current_message # None
                  /\ Len(messages') = Len(messages) + 1
                  /\ messages'[Len(messages')].content = current_message[3]
          /\ (AfterSystemLine /\ AtLine /\ PlainLine(Line)) =>
               /\ messages' = messages
               /\ parsing_stats'.skipped_lines = parsing_stats.skipped_lines + 1]_vars

\* a plain line was discarded after a system/media line
C4_Witness ==
    /\ AfterSystemLine
    /\ line_no >= 3
    /\ line_no - 1 <= Len(lines)
    /\ PlainLine(Stripped(lines[line_no - 1]))
    /\ SystemLine(Stripped(lines[line_no - 2]))

\* "25 10 2023 09 15"
DigitRunsOnly ==
    <<"2", "5", " ", "1", "0", " ", "2", "0", "2", "3", " ", "0", "9", " ", "1", "5">>

\* C5: the string with the digit runs 25, 10, 2023, 09, 15, which no layout
\* parses, resolves to day 25, month 10, year 2023, hour 9, minute 15.
C5_HeuristicDayFirst ==
    (raw_timestamp = DigitRunsOnly /\ outcomes # <<>>) =>
        /\ Len(outcomes[1]) = 6
        /\ SubSeq(outcomes[1], 1, 5) = <<2023, 10, 25, 9, 15>>

\* C6: two resolutions of the same string return the same outcome, and no
\* resolution raises.
C6_ResolutionDeterministic ==
    \A i, j \in 1..Len(outcomes) :
        /\ outcomes[i] = outcomes[j]
        /\ outcomes[i] # Raised

\* the same messages, up to the readings of the wall clock
SameMessages(a, b) ==
    /\ Len(a) = Len(b)
    /\ \A i \in 1..Len(a) :
         /\ a[i].sender = b[i].sender
         /\ a[i].content = b[i].content
         /\ \/ a[i].timestamp = b[i].timestamp
            \/ IsNow(a[i].timestamp) /\ IsNow(b[i].timestamp)

Counters == {"total_lines", "parsed_messages", "skipped_lines",
             "multiline_messages", "system_messages"}

\* C7: after a second parse_chat call on the same analyzer the messages are
\* those of the first transcript followed by those of the second, and every
\* counter is the sum of what the two transcripts give on fresh analyzers.
C7_SecondCallAdds ==
    (pc = "idle" /\ calls = 2) =>
        LET a == parse_chat(NewFrame, inputs[1], 0)
            b == parse_chat(NewFrame, inputs[2], 0)
        IN  /\ SameMessages(messages, a.messages \o b.messages)
            /\ \A c \in Counters :
                 parsing_stats[c] = a.parsing_stats[c] + b.parsing_stats[c]

\* C8: Ann's 'Hi', the line 'there', then Bob's 'Hi Ann' give exactly the
\* two messages Ann/'Hi there' and Bob/'Hi Ann', two participants and
\* multiline_messages = 1.
C8_CommitBeforeNewBuffer ==
    (ParsedOnce /\ lines = <<AnnHi, There, BobHiAnn>>) =>
        /\ Len(messages) = 2
        /\ messages[1].sender = Ann
        /\ messages[1].content = <<"H", "i", " ", "t", "h", "e", "r", "e">>
        /\ messages[2].sender = Bob
        /\ messages[2].content = <<"H", "i", " ", "A", "n", "n">>
        /\ participants = {Ann, Bob}
        /\ parsing_stats.multiline_messages = 1

C8_Witness ==
    ParsedOnce /\ lines = <<AnnHi, There, BobHiAnn>> /\ Len(messages) = 2

\* the line a message comes from
OriginLine(j) == Stripped(CallLines(origins[j][1])[origins[j][2]])

\* a message-start line that is no system line and whose captured timestamp
\* a layout or the heuristic resolves
ResolvableStart(l) ==
    /\ StartsMessage(l)
    /\ ~SystemLine(l)
    /\ Len(Resolved(Captured(l, 1))) = 6

\* content, and with_continuations the continuation lines that follow line
\* p of ls
Expected(content, ls, p, with_continuations) ==
    IF with_continuations THEN Continued(content, ls, p + 1) ELSE content

\* every resolvable start line of the lines ls of call c has exactly one
\* message once the call has returned, and a message from such a line has
\* the captured sender, the resolved instant and the captured content,
\* trimmed (followed by its continuation lines when with_continuations)
MessagesOfCall(c, ls, with_continuations) ==
    /\ \A j \in 1..Len(messages) :
         origins[j][1] = c =>
            \A l \in {Stripped(ls[origins[j][2]])} :
               ResolvableStart(l) =>
                  /\ messages[j].sender = Strip(Captured(l, 2))
                  /\ messages[j].timestamp = Resolved(Captured(l, 1))
                  /\ messages[j].content =
                        Expected(Strip(Captured(l, 3)), ls, origins[j][2],
                                 with_continuations)
    /\ c <= calls =>
         \A p \in 1..Len(ls) :
            ResolvableStart(Stripped(ls[p])) =>
               Cardinality({j \in 1..Len(messages) : origins[j] = <<c, p>>}) = 1

\* C9: every resolvable non-system message-start line produces exactly one
\* message, whose sender and content are the captured groups, trimmed, and
\* whose timestamp is the resolved instant.
C9_MessageIsCapturedGroups ==
    \A c \in 1..Len(split_lines) :
       \A ls \in {CallLines(c)} : MessagesOfCall(c, ls, FALSE)

\* C9 amended: every resolvable non-system message-start line produces
\* exactly one message, whose sender is the captured sender, trimmed, whose
\* timestamp is the resolved instant, and whose content is the captured
\* content, trimmed, followed by the continuation lines merged into the
\* message, each after one space.
C9_MessageIsCapturedGroupsAndContinuations ==
    \A c \in 1..Len(split_lines) :
       \A ls \in {CallLines(c)} : MessagesOfCall(c, ls, TRUE)

\* a message from a resolvable line with a trimmed sender, and one with a
\* continuation line
C9_Witness ==
    /\ pc = "idle"
    /\ \E j \in 1..Len(messages) :
         /\ Len(messages[j].timestamp) = 6
         /\ messages[j].content # Strip(Captured(OriginLine(j), 3))
    /\ \E j \in 1..Len(messages) :
         /\ Len(messages[j].timestamp) = 6
         /\ messages[j].sender # Captured(OriginLine(j), 2)

\* C10: in every state the participants are exactly the senders of the
\* messages.
C10_ParticipantsAreSenders ==
    participants = {messages[j].sender : j \in 1..Len(messages)}

\* in the middle of a call, two messages of two senders
C10_Witness ==
    pc = "loop" /\ Len(messages) >= 2 /\ Cardinality(participants) = 2

\* origin a is earlier in the transcripts than origin b
Precedes(a, b) == a[1] < b[1] \/ (a[1] = b[1] /\ a[2] < b[2])

\* the date-time a is later than the date-time b
Later(a, b) == \E k \in 1..6 : a[k] > b[k] /\ \A h \in 1..(k - 1) : a[h] = b[h]

\* C11: the messages are in the order of their start lines (message j is
\* the one of its start line: it has that line's sender and begins with its
\* content), whatever their timestamps, and a step of parse_chat leaves the
\* messages already appended as they are, in their places.
C11_AppendOnlyInOrder ==
    /\ [](\A i, j \in 1..Len(messages) : i < j => Precedes(origins[i], origins[j]))
    /\ [](\A j \in 1..Len(messages) :
            \A l \in {OriginLine(j)} :
               /\ messages[j].sender = Strip(Captured(l, 2))
               /\ StartsWith(messages[j].content, Strip(Captured(l, 3))))
    /\ [][/\ Len(messages') >= Len(messages)
          /\ SubSeq(messages', 1, Len(messages)) = messages]_vars

\* two messages, the first with the later timestamp
C11_Witness ==
    /\ Len(messages) = 2
    /\ Len(messages[1].timestamp) = 6
    /\ Len(messages[2].timestamp) = 6
    /\ Later(messages[1].timestamp, messages[2].timestamp)
    /\ Precedes(origins[1], origins[2])

\* the step of parse_chat about to be taken commits the open buffer: the
\* line matches a message-start pattern, or the loop is over
CommitsBuffer ==
    /\ pc = "loop"
    /\ current_message # None
    /\ (line_no > Len(lines) \/ StartsMessage(Line))

\* C12: every buffer committed produces a message: the step appends one
\* message with the buffer's sender and content, the sender is among the
\* participants, and the message is counted in parsed_messages when
\* parse_chat returns.
C12_EveryCommitStores ==
    [][CommitsBuffer =>
          /\ Len(messages') = Len(messages) + 1
          /\ messages'[Len(messages')].sender = current_message[2]
          /\ messages'[Len(messages')].content = current_message[3]
          /\ current_message[2] \in participants'
          /\ (pc' = "idle" => parsing_stats'.parsed_messages = Len(messages'))]_vars

\* get_parsing_report has just returned
Reported == returned # None /\ returned.op = "get_parsing_report"

\* C13: after one parse_chat call on a fresh analyzer, the success_rate of
\* get_parsing_report (in hundredths of a percent) is exactly
\* 100 * parsed_messages / max(1, total_lines - skipped_lines) and lies
\* between 0 and 100.
C13_SuccessRateExact ==
    (ParsedOnce /\ Reported) =>
        /\ returned.success_rate * Max(1, parsing_stats.total_lines - parsing_stats.skipped_lines)
              = 10000 * parsing_stats.parsed_messages
        /\ returned.success_rate >= 0
        /\ returned.success_rate <= 10000

\* x is within half a unit of n / d
Nearest(x, n, d) == 2 * (x * d - n) <= d /\ 2 * (n - x * d) <= d

\* C13 amended: after one parse_chat call on a fresh analyzer, the
\* success_rate of get_parsing_report is
\* 100 * parsed_messages / max(1, total_lines - skipped_lines) rounded to
\* two decimals, and lies between 0 and 100.
C13_SuccessRateRounded ==
    (ParsedOnce /\ Reported) =>
        /\ Nearest(returned.success_rate, 10000 * parsing_stats.parsed_messages,
                   Max(1, parsing_stats.total_lines - parsing_stats.skipped_lines))
        /\ returned.success_rate >= 0
        /\ returned.success_rate <= 10000

\* a report of one message in three lines (33.33), and one with a skipped
\* line and a message
C13_Witness ==
    /\ ParsedOnce
    /\ Reported
    /\ returned.success_rate = 3333
    /\ parsing_stats.total_lines = 3

\* C14: an empty or whitespace-only line is not pattern-tested (its step
\* changes nothing but the position in the loop), and after parse_chat
\* total_lines is the number of non-empty lines of the transcript.
C14_TotalLinesNonEmpty ==
    /\ [][(AtLine /\ Line = <<>>) =>
            UNCHANGED <<messages, participants, parsing_stats, current_message,
                        multiline_count>>]_vars
    /\ []((pc = "idle" /\ calls >= 1) =>
            parsing_stats.total_lines = NonEmptyLines(lines))

\* the content begins with a known marker
BeginsWithMarker(content) ==
    \/ StartsWith(content, <<"<">>)
    \/ StartsWith(content, <<LRM>>)
    \/ StartsWith(content, LigacaoPerdida)
    \/ StartsWith(content, MissedCall)

\* C15: a line that matches a message-start pattern is discarded (no buffer
\* is opened for it) exactly when its trimmed content begins with a known
\* marker; any other content, a missed-call phrase after other text
\* included, becomes the content of the open buffer.
C15_DiscardedIffBeginsWithMarker ==
    [][(AtLine /\ StartsMessage(Line)) =>
          \A content \in {Strip(Captured(Line, 3))} :
             /\ BeginsWithMarker(content) <=> current_message' = None
             /\ ~BeginsWithMarker(content) =>
                   /\ current_message' # None
                   /\ current_message'[3] = content]_vars

\* C16: parse_chat never raises and finishes: every step of the loop takes
\* the next line, the call returns after the last one, and a line that no
\* pattern matches while no buffer is open is counted in skipped_lines and
\* dropped.
C16_NeverRaises ==
    /\ [](pc # "raised")
    /\ [][pc = "loop" =>
            \/ line_no <= Len(lines) /\ line_no' = line_no + 1 /\ pc' = "loop"
            \/ line_no > Len(lines) /\ pc' = "idle"]_vars
    /\ [][(AtLine /\ PlainLine(Line) /\ current_message = None) =>
            /\ messages' = messages
            /\ current_message' = None
            /\ parsing_stats'.skipped_lines = parsing_stats.skipped_lines + 1]_vars

\* a call has returned whose lines have a line no pattern matches, with no
\* buffer open, and a timestamp whose resolution raises
C16_Witness ==
    /\ ParsedOnce
    /\ Len(lines) >= 2
    /\ PlainLine(Stripped(lines[1]))
    /\ \E i \in 1..Len(lines) :
         /\ StartsMessage(Stripped(lines[i]))
         /\ Resolved(Captured(Stripped(lines[i]), 1)) = Raised

\* the layouts of the list that parse s
ParsingLayouts(s) == {i \in 1..Len(formats) : Strptime(s, formats[i]) # Failed}

\* "10/02/2023 09:15"
SlashBothSmall ==
    <<"1", "0", "/", "0", "2", "/", "2", "0", "2", "3", " ", "0", "9", ":", "1", "5">>

\* C17: a string that some layout parses resolves to the result of the
\* earliest layout of the list that parses it, never to the educated guess
\* or the clock; "10/02/2023 09:15" is read day-first.
C17_EarliestLayoutWins ==
    \A k \in 1..Len(outcomes) :
       \A s \in {Strip(raw_timestamp)} :
          \A ps \in {ParsingLayouts(s)} :
             /\ ps # {} =>
                   outcomes[k] = Strptime(s, formats[CHOOSE i \in ps : \A j \in ps : i <= j])
             /\ ps = {} => outcomes[k] \in {Heuristic(s)} \cup {Now(t) : t \in 0..MaxClock}
             /\ s = SlashBothSmall => outcomes[k] = <<2023, 2, 10, 9, 15, 0>>

\* the slash date with both fields <= 12 has been resolved
C17_Witness ==
    raw_timestamp = SlashBothSmall /\ Len(outcomes) >= 1

\* C18: a date-time formatted with a layout of the list resolves to that
\* date-time, for every layout and every date-time.
C18_RoundTrip ==
    \A k \in 1..Len(outcomes) : outcomes[k] = original

\* the layout fmt writes all of the date-time dt: its seconds, or dt has
\* none, and its century, or the year is one a two-digit year is read as
Represents(fmt, dt) ==
    /\ "%S" \notin Range(fmt) => dt[6] = 0
    /\ "%y" \in Range(fmt) => (dt[1] >= 1969 /\ dt[1] <= 2068)

\* C18 amended: a date-time formatted with a layout of the list resolves to
\* that date-time, for every layout and every date-time the layout writes
\* in full: seconds 0 for a layout without seconds, a year from 1969 to
\* 2068 for a layout with a two-digit year.
C18_RoundTripRepresentable ==
    \A k \in 1..Len(outcomes) :
       Represents(formats[layout], original) => outcomes[k] = original

\* an afternoon hour written with AM/PM has come back
C18_Witness ==
    /\ Len(outcomes) >= 1
    /\ "%p" \in Range(formats[layout])
    /\ original[4] = 15
    /\ outcomes[1] = original

\* for every family, the lines among the first 50 of ls it is found in
SampleCounts(ls) ==
    [f \in 1..Len(format_names) |->
        Cardinality({i \in 1..Len(ls) : i <= 50 /\ SearchTable[ls[i]][f]})]

\* C19: the detected format is 'Mixed/Unknown' when no family is found in
\* any of the first 50 lines; otherwise it is a family found in the most of
\* the first 50 lines, the first declared of those; so lines after the
\* 50th do not count.
C19_DetectedFamily ==
    split_lines # <<>> =>
       \A counts \in {SampleCounts(lines)} :
          /\ (\A f \in DOMAIN counts : counts[f] = 0) => detected_format = "Mixed/Unknown"
          /\ (\E f \in DOMAIN counts : counts[f] > 0) =>
                \E f \in DOMAIN counts :
                   /\ detected_format = format_names[f]
                   /\ \A g \in DOMAIN counts : counts[g] <= counts[f]
                   /\ \A g \in 1..(f - 1) : counts[g] < counts[f]

\* the 50th line is found in two families, the first declared is detected,
\* and the 51st line is of another family
C19_Witness ==
    /\ Len(lines) >= 51
    /\ lines[50] = UsHi
    /\ lines[51] = IsoHi
    /\ detected_format = format_names[1]

\* an analysis operation has just returned
Analysed == returned # None /\ returned.op \in AnalysisOperations

\* C20: when there is no message, nothing has raised, every analysis
\* operation returns the error value 'No messages to analyze' (alone and
\* as a part of the comprehensive report), and parse_chat of the core
\* analyzer has returned False when the core analyzer has no message.
C20_NothingRecognized ==
    /\ pc # "raised"
    /\ (messages = <<>> /\ Analysed) => returned.error = NoMessagesError
    /\ (messages = <<>> /\ returned # None
          /\ returned.op = "generate_comprehensive_report") =>
            /\ returned.linguistic_analysis.error = NoMessagesError
            /\ returned.psychological_analysis.error = NoMessagesError
            /\ returned.communication_analysis.error = NoMessagesError
            /\ returned.relationship_insights.error = NoMessagesError
    /\ (core.calls >= 1 /\ core.messages = <<>>) => core.returned = FALSE

\* a transcript with a non-empty line gave no message in either analyzer,
\* and an analysis has been asked for
C20_Witness ==
    /\ ParsedOnce
    /\ NonEmptyLines(lines) >= 1
    /\ messages = <<>>
    /\ Analysed
    /\ core.calls = 1
    /\ core.messages = <<>>

\* C21: processing a non-empty line that matches no message-start pattern
\* while no buffer is open adds exactly 1 to skipped_lines, and no other
\* step changes skipped_lines: not a message-start line, a system/media
\* line or a continuation line, nor the start or the end of a call.
C21_SkippedOnlyUnattributable ==
    [][/\ (AtLine /\ PlainLine(Line) /\ current_message = None) =>
             parsing_stats'.skipped_lines = parsing_stats.skipped_lines + 1
       /\ ~(AtLine /\ PlainLine(Line) /\ current_message = None) =>
             parsing_stats'.skipped_lines = parsing_stats.skipped_lines]_vars

\* a line that opens a buffer: it matches a message-start pattern and its
\* content, trimmed, is not empty and no system/media notice
OpensBuffer(l) ==
    StartsMessage(l) /\ ~SystemLine(l) /\ Strip(Captured(l, 3)) # <<>>

\* the number of messages that come from line p of call c
CommitsOf(c, p) == Cardinality({j \in 1..Len(messages) : origins[j] = <<c, p>>})

\* C22: every buffer opened by a message-start line is committed to the
\* store exactly once, at the next line that matches a message-start
\* pattern or at the end of the input: such a step appends exactly one
\* message, that of the open buffer, no other step appends one, and once
\* parse_chat has returned every line that opened a buffer has exactly one
\* message, the last one of the transcript included.
C22_CommittedExactlyOnce ==
    /\ [][IF CommitsBuffer
          THEN /\ Len(messages') = Len(messages) + 1
               /\ origins'[Len(messages')] = open_origin
               /\ messages'[Len(messages')].content = current_message[3]
          ELSE messages' = messages]_vars
    /\ [](pc = "idle" =>
            \A c \in 1..calls :
               \A p \in 1..Len(CallLines(c)) :
                  CommitsOf(c, p) = IF OpensBuffer(Stripped(CallLines(c)[p])) THEN 1 ELSE 0)

\* the messages that received at least one continuation line: their content
\* is longer than the content their start line captures
MultilineStored ==
    {j \in 1..Len(messages) : messages[j].content # Strip(Captured(OriginLine(j), 3))}

\* C23: in every state multiline_messages is the number of committed
\* messages that received at least one continuation line, so a single-line
\* message that follows a multi-line one is not counted, and
\* multiline_messages never exceeds the number of committed messages.
C23_MultilineCountsMessages ==
    /\ parsing_stats.multiline_messages = Cardinality(MultilineStored)
    /\ parsing_stats.multiline_messages <= Len(messages)

\* C24: the first pattern, in the declared order, that matches a line
\* decides the captured timestamp, sender and content; the line opens at
\* most one buffer, that of these groups, commits at most the one buffer
\* that was open, and changes the counters as a single match: a
\* system/media line adds exactly 1 to system_messages, any other
\* message-start line nothing, however many later patterns match the line.
C24_FirstPatternWins ==
    [][(AtLine /\ StartsMessage(Line)) =>
          /\ current_message' # None =>
                current_message' = <<Captured(Line, 1), Strip(Captured(Line, 2)),
                                     Strip(Captured(Line, 3))>>
          /\ Len(messages') <= Len(messages) + 1
          /\ parsing_stats'.system_messages =
                parsing_stats.system_messages + (IF SystemLine(Line) THEN 1 ELSE 0)
          /\ parsing_stats'.skipped_lines = parsing_stats.skipped_lines]_vars

\* the digit runs of s as numbers, left to right
DigitRuns(s) ==
    LET numbers == FindNumbers(s, 0) IN [i \in 1..Len(numbers) |-> ToInt(numbers[i])]

\* the year a number stands for: a two-digit y is 2000 + y below 50 and
\* 1900 + y from 50 on
YearOf(y) == IF y >= 100 THEN y ELSE IF y < 50 THEN 2000 + y ELSE 1900 + y

\* the first run is the year
YearFirst(n) == n[1] > 31 \/ (n[1] > 12 /\ n[2] <= 12)

\* the first run is the day and the second the month
DayFirst(n) == ~YearFirst(n) /\ n[1] <= 31 /\ n[2] <= 12

\* year, month and day as the heuristic is said to take them from the runs
StatedDate(n) ==
    IF YearFirst(n) THEN <<YearOf(n[1]), n[2], n[3]>> ELSE <<YearOf(n[3]), n[2], n[1]>>

StatedSecond(n) == IF Len(n) >= 6 THEN n[6] ELSE 0

ContinuationLine == AtLine /\ PlainLine(Line) /\ current_message # None

\* C26: a continuation line changes only the content of the open buffer,
\* to which the line, trimmed, is appended after a single space, and the
\* continuation counter, which grows by 1: the buffered timestamp string
\* and sender, the messages, the participants and the counters
\* skipped_lines, system_messages and multiline_messages are unchanged, and
\* the buffer stays open inside the loop.
C26_ContinuationFrame ==
    [][ContinuationLine =>
          /\ current_message' = <<current_message[1], current_message[2],
                                  current_message[3] \o <<" ">> \o Line>>
          /\ multiline_count' = multiline_count + 1
          /\ messages' = messages
          /\ participants' = participants
          /\ parsing_stats'.skipped_lines = parsing_stats.skipped_lines
          /\ parsing_stats'.system_messages = parsing_stats.system_messages
          /\ parsing_stats'.multiline_messages = parsing_stats.multiline_messages
          /\ pc' = "loop"]_vars

\* two continuation lines have been appended to one buffer, the second one
\* written with spaces around it
C26_Witness ==
    /\ pc = "loop"
    /\ line_no = 4
    /\ multiline_count = 2
    /\ lines[3] # Stripped(lines[3])
    /\ current_message # None
    /\ current_message[3] =
          Strip(Captured(Stripped(lines[1]), 3)) \o <<" ">> \o Stripped(lines[2])
             \o <<" ">> \o Stripped(lines[3])

\* the buckets of format_quality, from the worst to the best
QualityRank(quality) ==
    CASE quality = "Poor" -> 0
      [] quality = "Fair" -> 1
      [] quality = "Good" -> 2
      [] quality = "Excellent" -> 3

\* C27: the format_quality of get_parsing_report is 'Excellent' when the
\* success rate 100 * parsed_messages / max(1, total_lines - skipped_lines)
\* is above 90, 'Good' when it is above 70 and at most 90, 'Fair' when it
\* is above 50 and at most 70, and 'Poor' otherwise; and with fewer parsed
\* messages, total_lines and skipped_lines being the same, the bucket is
\* the same or a worse one.
C27_QualityBuckets ==
    Reported =>
       \A p \in {parsing_stats.parsed_messages} :
          \A d \in {Max(1, parsing_stats.total_lines - parsing_stats.skipped_lines)} :
             /\ returned.format_quality =
                   (IF 100 * p > 90 * d THEN "Excellent"
                    ELSE IF 100 * p > 70 * d THEN "Good"
                    ELSE IF 100 * p > 50 * d THEN "Fair"
                    ELSE "Poor")
             /\ \A q \in 0..(p - 1) :
                   QualityRank(FormatQuality([parsing_stats EXCEPT !.parsed_messages = q]))
                      <= QualityRank(returned.format_quality)

\* a report of 9 messages in 10 counted lines: exactly 90, which is 'Good'
C27_Witness ==
    /\ ParsedOnce
    /\ Reported
    /\ parsing_stats.parsed_messages = 9
    /\ parsing_stats.total_lines - parsing_stats.skipped_lines = 10
    /\ returned.format_quality = "Good"

\* the lines of ls that match a message-start pattern of the core analyzer
CoreStartLines(ls) ==
    {i \in 1..Len(ls) :
        \E k \in 1..Len(core_patterns) : CoreMatchTable[Stripped(ls[i])][k] # NoMatch}

\* C28: after parse_chat of the core analyzer, the number of stored
\* messages is at most the number of lines that match a message-start
\* pattern, whatever their timestamps and however many patterns match
\* them: no message is stored more than once.
C28_CoreStoresAtMostOnce ==
    core.calls = 1 =>
        Len(core.messages) <= Cardinality(CoreStartLines(split_lines[1]))

\* the position of the US family among the families, and of the
\* Brazilian/European one
UsFamily == CHOOSE f \in 1..Len(format_names) : format_names[f] = "US Format (MM/DD/YYYY AM/PM)"
BrazilianFamily ==
    CHOOSE f \in 1..Len(format_names) : format_names[f] = "Brazilian/European (DD/MM/YYYY)"

\* C29: the detected format is never 'US Format (MM/DD/YYYY AM/PM)': in
\* every line where the US family is found the Brazilian/European family,
\* declared before it, is found too, and a transcript in which the US
\* family is found in every line is detected as Brazilian/European.
C29_UsNeverDetected ==
    /\ detected_format # format_names[UsFamily]
    /\ BrazilianFamily < UsFamily
    /\ \A i \in 1..Len(lines) :
          SearchTable[lines[i]][UsFamily] => SearchTable[lines[i]][BrazilianFamily]
    /\ (lines # <<>> /\ \A i \in 1..Len(lines) : SearchTable[lines[i]][UsFamily]) =>
          detected_format = format_names[BrazilianFamily]

\* a transcript of three US-format lines with AM/PM has been parsed
C29_Witness ==
    /\ ParsedOnce
    /\ lines = <<UsHi, UsHi, UsHi>>
    /\ Len(messages) = 3
    /\ detected_format = format_names[BrazilianFamily]

\* C30: after parse_chat of the core analyzer on a fresh analyzer,
\* parsing_stats['parsed_messages'] is the number of messages in the store,
\* also when a saved buffer has empty content and _add_message rejects it.
C30_CoreParsedIsStored ==
    core.calls = 1 => core.parsing_stats.parsed_messages = Len(core.messages)

=============================================================================
